---- MODULE Spec2Model ----
(***************************************************************************)
(* Shopping-list reconciliation engine of client_server_einkaufsliste:     *)
(* quantity algebra (server/src/utils.py), purchase-date scheduler and     *)
(* binding reconciler (server/src/routers/weekplan.py), item lookup        *)
(* (server/src/routers/items.py).                                          *)
(*                                                                         *)
(* Representation of quantity texts ("menge").  A text is the sequence of  *)
(* its `;`-separated, stripped parts; Python None is the empty sequence    *)
(* and the empty string is the one-part text <<EmptyPart>> (this is what   *)
(* "".split(";") yields).  A part is a record                              *)
(*     [kind, num, unit, form]                                             *)
(* kind = "num": a part parse_quantity accepts; num is the magnitude in    *)
(*     hundredths (the text "2" is 200), unit is the trimmed remainder     *)
(*     ("" stands for Python None, no unit), form tells whether the part   *)
(*     is spelled the way _format_quantity_value spells it ("c", e.g.      *)
(*     "5 g") or in another accepted spelling ("v", e.g. "5g", "5.0 g").   *)
(* kind = "raw": a part parse_quantity rejects; num/unit/form only tell    *)
(*     raw parts apart.                                                    *)
(* Magnitudes are exact decimals; binary floating-point rounding of the    *)
(* Python floats is not modelled.                                          *)
(***************************************************************************)
EXTENDS Integers, Sequences, FiniteSets, TLC

VARIABLES
    existing_menge,   \* merge_quantities: the existing quantity text
    new_menge,        \* merge_quantities: the incoming quantity text
    merged_menge,     \* result of merging new_menge into existing_menge
    retracted_menge,  \* result of then merging the negation of new_menge
    mq_ops,           \* merge operations applied to one line, as a sequence of texts
    mq_outcomes,      \* the final texts of mq_ops applied in every order
    mq_pc,            \* position of the quantity-algebra driver
    mq_n,             \* number of merges applied so far by the driver
    sd_today,         \* scheduler: today's date (day number, day 0 is a Monday)
    sd_weekplan_date, \* scheduler: the meal date
    sd_meal,          \* scheduler: the meal slot
    sd_is_fresh,      \* scheduler: the catalog's freshness flag of the item
    sd_main_day,      \* scheduler: MAIN_SHOPPING_DAY (weekday 0-6)
    sd_fresh_day,     \* scheduler: FRESH_PRODUCTS_DAY (weekday 0-6)
    sd_shopping_date, \* scheduler: the date returned for the item
    sd_plain_date,    \* scheduler: the date returned for a non-fresh item
    sd_later,         \* scheduler: the later day the entry is updated or deleted on
    sd_later_date,    \* scheduler: the date returned for the item on that day
    sd_pc,            \* position of the scheduler driver
    clock,            \* reconciler: today's date (day number)
    catalog,          \* which of the template, the recipe and the store exist
    weekplan,         \* the WeekplanEntry rows, by entry id
    items,            \* the shopping list: Item rows in insertion order
    steps,            \* number of requests served so far
    led,              \* per entry: net quantity its requests put on the list
    last,             \* the request served last, with the list before it
    pure,             \* only requests on future-dated entries so far
    sel,              \* the lines the request served last selected, per line step
    lp_items,         \* event loop: the shopping list as committed
    lp_entry,         \* event loop: state of the plan entry the Delete request names
    lp_active,        \* ConnectionManager.active_connections: user id -> connections
    lp_slots,         \* the entries of that dict in insertion order, 0 for a deleted key
    lp_broken,        \* connections on which send_json raises
    lp_tasks,         \* the request handlers running on the event loop
    fn_args,          \* function driver: the arguments of the call
    fn_result,        \* function driver: what the call returned
    fn_pc,            \* position of the function driver
    rq_request,       \* one request: the operation, the entry and the new deltas
    rq_before,        \* one request: the Item rows when the request arrives
    rq_db,            \* one request: the Item rows as committed
    rq_session,       \* one request: the Item rows as the session of the handler holds them
    rq_plan,          \* one request: the line steps of the handler
    rq_k,             \* one request: number of line steps taken
    modified_items,   \* one request: ids the handler appended to modified_items
    deleted_items,    \* one request: ids the handler appended to deleted_items
    rq_outbox,        \* one request: the notifications the handler is still to broadcast
    rq_sent,          \* one request: the notifications broadcast
    rq_pc             \* one request: position of the handler

mq_vars == <<existing_menge, new_menge, merged_menge, retracted_menge, mq_ops, mq_outcomes,
             mq_pc, mq_n>>
sd_vars == <<sd_today, sd_weekplan_date, sd_meal, sd_is_fresh, sd_main_day, sd_fresh_day,
             sd_shopping_date, sd_plain_date, sd_later, sd_later_date, sd_pc>>
rc_vars == <<clock, catalog, weekplan, items, steps, led, last, pure, sel>>
lp_vars == <<lp_items, lp_entry, lp_active, lp_slots, lp_broken, lp_tasks>>
fn_vars == <<fn_args, fn_result, fn_pc>>
rq_vars == <<rq_request, rq_before, rq_db, rq_session, rq_plan, rq_k, modified_items,
             deleted_items, rq_outbox, rq_sent, rq_pc>>
vars == <<mq_vars, sd_vars, rc_vars, lp_vars, fn_vars, rq_vars>>

(***************************************************************************)
(* Bounds                                                                  *)
(***************************************************************************)
MaxMag == 2          \* incoming magnitudes range over -MaxMag..MaxMag (whole numbers)
MaxMerges == 2       \* length of a merge sequence
MaxParts == 2        \* parts per incoming text
MaxOps == 3          \* merge operations applied to one line in every order
MaxAhead == 8        \* the scheduler's meal dates range over today..today+MaxAhead

Cent == 100          \* hundredths per unit of magnitude
NoUnit == ""
Units == {NoUnit, "g"}
Forms == {"c", "v"}

Abs(n) == IF n < 0 THEN 0 - n ELSE n

None == << >>
NumPart(n, u, f) == [kind |-> "num", num |-> n, unit |-> u, form |-> f]
RawPart(n, u, f) == [kind |-> "raw", num |-> n, unit |-> u, form |-> f]
EmptyPart == RawPart(0, NoUnit, "empty")
EmptyText == <<EmptyPart>>

\* Python truthiness of an Optional[str]
Truthy(menge) == menge # None /\ menge # EmptyText

(***************************************************************************)
(* utils.py                                                                *)
(***************************************************************************)
\* parse_quantity applied to one part: (number, unit) or (None, None)
parse_part(part) ==
    IF part.kind = "num"
    THEN [ok |-> TRUE, num |-> part.num, unit |-> part.unit]
    ELSE [ok |-> FALSE, num |-> 0, unit |-> NoUnit]

\* parse_quantity applied to a whole text: the regular expressions are
\* anchored at the start, so the number is the first part's number and the
\* unit is the whole remainder (the first unit together with every
\* following part).
parse_quantity(menge) ==
    IF ~Truthy(menge) THEN [ok |-> FALSE, num |-> 0, unit |-> NoUnit, rest |-> << >>]
    ELSE LET p == parse_part(menge[1])
         IN [ok |-> p.ok, num |-> p.num, unit |-> p.unit,
             rest |-> IF p.ok THEN Tail(menge) ELSE << >>]

\* _validate_quantities that returns a stored text and ignores the incoming one
validate_quantities_first_wins(existing, new) ==
    IF ~Truthy(existing)
    THEN IF Truthy(new) /\ parse_quantity(new).ok /\ parse_quantity(new).num < 0
         THEN [cont |-> FALSE, result |-> None]
         ELSE [cont |-> FALSE, result |-> new]
    ELSE [cont |-> FALSE, result |-> existing]

_validate_quantities(existing, new) ==
    IF ~Truthy(existing)
    THEN IF Truthy(new) /\ parse_quantity(new).ok /\ parse_quantity(new).num < 0
         THEN [cont |-> FALSE, result |-> None]
         ELSE [cont |-> FALSE, result |-> new]
    ELSE IF ~Truthy(new)
         THEN [cont |-> FALSE, result |-> existing]
         ELSE [cont |-> TRUE, result |-> None]

_format_quantity_value(total, unit) == NumPart(total, unit, "c")

RemoveAt(s, i) == SubSeq(s, 1, i - 1) \o SubSeq(s, i + 1, Len(s))

\* _merge_single_part that stores the incoming number in place of the sum
merge_single_part_overwrite(new_part, existing_parts) ==
    LET n == parse_part(new_part) IN
    IF ~n.ok
    THEN [parts |-> Append(existing_parts, new_part), found |-> FALSE]
    ELSE LET hits == {i \in 1..Len(existing_parts) :
                         parse_part(existing_parts[i]).ok
                         /\ parse_part(existing_parts[i]).unit = n.unit}
         IN IF hits = {}
            THEN [parts |-> existing_parts, found |-> FALSE]
            ELSE LET i == CHOOSE j \in hits : \A k \in hits : j <= k
                 IN [parts |-> IF n.num > 0
                               THEN [existing_parts EXCEPT
                                        ![i] = _format_quantity_value(n.num, existing_parts[i].unit)]
                               ELSE RemoveAt(existing_parts, i),
                     found |-> TRUE]

\* _merge_single_part that keeps the sum as a term whatever its sign
merge_single_part_signed(new_part, existing_parts) ==
    LET n == parse_part(new_part) IN
    IF ~n.ok
    THEN [parts |-> Append(existing_parts, new_part), found |-> FALSE]
    ELSE LET hits == {i \in 1..Len(existing_parts) :
                         parse_part(existing_parts[i]).ok
                         /\ parse_part(existing_parts[i]).unit = n.unit}
         IN IF hits = {}
            THEN [parts |-> existing_parts, found |-> FALSE]
            ELSE LET i == CHOOSE j \in hits : \A k \in hits : j <= k
                 IN [parts |-> [existing_parts EXCEPT
                                   ![i] = _format_quantity_value(existing_parts[i].num + n.num,
                                                                 existing_parts[i].unit)],
                     found |-> TRUE]

_merge_single_part(new_part, existing_parts) ==
    LET n == parse_part(new_part) IN
    IF ~n.ok
    THEN [parts |-> Append(existing_parts, new_part), found |-> FALSE]
    ELSE LET Hit(i) == parse_part(existing_parts[i]).ok
                        /\ parse_part(existing_parts[i]).unit = n.unit
             hits == {i \in 1..Len(existing_parts) : Hit(i)}
         IN IF hits = {}
            THEN [parts |-> existing_parts, found |-> FALSE]
            ELSE LET i == CHOOSE j \in hits : \A k \in hits : j <= k
                     total == existing_parts[i].num + n.num
                 IN [parts |-> IF total > 0
                               THEN [existing_parts EXCEPT
                                        ![i] = _format_quantity_value(total, existing_parts[i].unit)]
                               ELSE RemoveAt(existing_parts, i),
                     found |-> TRUE]

\* "; ".join(parts), read back as a sequence of parts
Join(parts) == IF parts = << >> THEN EmptyText ELSE parts

RECURSIVE merge_loop(_, _)
merge_loop(result_menge, new_parts) ==
    IF new_parts = << >> THEN result_menge
    ELSE LET new_part == Head(new_parts) IN
         IF new_part = EmptyPart
         THEN merge_loop(result_menge, Tail(new_parts))
         ELSE LET m == _merge_single_part(new_part, result_menge)
                  n == parse_part(new_part)
                  merged_parts == IF ~m.found /\ n.ok /\ n.num > 0
                                  THEN Append(m.parts, new_part)
                                  ELSE m.parts
              IN merge_loop(Join(merged_parts), Tail(new_parts))

merge_quantities(existing, new) ==
    LET v == _validate_quantities(existing, new) IN
    IF ~v.cont THEN v.result
    ELSE LET result_menge == merge_loop(existing, new)
         IN IF result_menge = EmptyText THEN None ELSE result_menge

(***************************************************************************)
(* weekplan.py: negation of a quantity text                                *)
(***************************************************************************)
\* f"-{number} {unit}": a leading minus in front of the formatted number.
\* For a negative number this spells "--3 g", which parse_quantity rejects.
\* _create_negative_quantity that gives the quantity back without the sign
create_quantity_unsigned(menge) ==
    LET p == parse_quantity(menge) IN
    IF ~p.ok THEN EmptyText ELSE menge

_create_negative_quantity(menge) ==
    LET p == parse_quantity(menge) IN
    IF ~p.ok THEN EmptyText
    ELSE IF p.num >= 0
         THEN <<NumPart(0 - p.num, p.unit, "c")>> \o p.rest
         ELSE <<RawPart(p.num, p.unit, "neg")>> \o p.rest

(***************************************************************************)
(* Denotation of a text: its terms, in order, without spelling             *)
(***************************************************************************)
Terms(menge) == [i \in 1..Len(menge) |->
                    [kind |-> menge[i].kind, num |-> menge[i].num, unit |-> menge[i].unit]]

\* A valid quantity expression: every part is a term of magnitude > 0 and
\* no two terms share a unit.  None (no terms) is valid.
ValidExpr(menge) ==
    /\ \A i \in 1..Len(menge) : menge[i].kind = "num" /\ menge[i].num > 0
    /\ \A i, j \in 1..Len(menge) : i # j => menge[i].unit # menge[j].unit

(***************************************************************************)
(* weekplan.py: purchase-date scheduler.  Dates are day numbers; day 0 is  *)
(* a Monday, so date.weekday() is the day number modulo 7.                 *)
(***************************************************************************)
WeekLen == 7
Meals == {"morning", "lunch", "dinner"}
Weekdays == 0..(WeekLen - 1)

weekday(date) == date % WeekLen

_get_next_weekday(from_date, target_weekday) ==
    LET days_ahead == target_weekday - weekday(from_date)
    IN from_date + (IF days_ahead < 0 THEN days_ahead + WeekLen ELSE days_ahead)

\* next_main_shopping without the clamp to today of a trip after the meal
next_main_shopping_unclamped(today, weekplan_date, meal, main_shopping_day) ==
    _get_next_weekday(today, main_shopping_day)

\* next_main_shopping after lines 173-188
next_main_shopping(today, weekplan_date, meal, main_shopping_day) ==
    LET allow_same_day == meal = "dinner"
        nxt == _get_next_weekday(today, main_shopping_day)
    IN IF nxt > weekplan_date
       THEN today
       ELSE IF ~allow_same_day /\ nxt = weekplan_date
            THEN IF today < weekplan_date THEN today ELSE nxt
            ELSE nxt

\* next_fresh_products that replaces a fresh trip after the meal by today
next_fresh_products_today(today, weekplan_date, meal, main_shopping_day, fresh_products_day) ==
    LET allow_same_day == meal = "dinner"
        nxt == _get_next_weekday(today, fresh_products_day)
    IN IF nxt > weekplan_date
       THEN today
       ELSE IF ~allow_same_day /\ nxt = weekplan_date
            THEN today
            ELSE nxt

\* next_fresh_products after lines 191-207
next_fresh_products(today, weekplan_date, meal, main_shopping_day, fresh_products_day) ==
    LET allow_same_day == meal = "dinner"
        nxt0 == _get_next_weekday(today, fresh_products_day)
        nxt == IF nxt0 < today THEN nxt0 + WeekLen ELSE nxt0
        main == next_main_shopping(today, weekplan_date, meal, main_shopping_day)
    IN IF nxt > weekplan_date
       THEN main
       ELSE IF ~allow_same_day /\ nxt = weekplan_date
            THEN IF today < weekplan_date THEN today ELSE main
            ELSE nxt

\* _calculate_shopping_date without the fresh rule
calculate_shopping_date_main_only(today, weekplan_date, meal, is_fresh, main_shopping_day, fresh_products_day) ==
    next_main_shopping(today, weekplan_date, meal, main_shopping_day)

_calculate_shopping_date(today, weekplan_date, meal, is_fresh, main_shopping_day, fresh_products_day) ==
    LET main == next_main_shopping(today, weekplan_date, meal, main_shopping_day)
        fresh == next_fresh_products(today, weekplan_date, meal, main_shopping_day, fresh_products_day)
    IN IF is_fresh /\ weekplan_date >= fresh THEN fresh ELSE main

(***************************************************************************)
(* Catalog and name universe of the reconciler model                       *)
(***************************************************************************)
MAIN_SHOPPING_DAY == 2
FRESH_PRODUCTS_DAY == 4
BasePersons == 2         \* person_count of the template and of the recipe
FuzzyThreshold == 800    \* 0.8, in thousandths

FirstStore == "Rewe"
OtherStore == "Aldi"
NoStore == "none"
TemplateName == "T"
RecipeId == "r1"
NoRecipe == "none"
NoCount == 0 - 1         \* person_count = None

ItemNames == {"Moehren", "Moehre", "Salz", "Moehren (Bio)"}

\* str.lower(); in "M:ohren" the ":o" stands for o-umlaut, in ":Ol" the ":O"
\* for its capital
Lower(name) ==
    CASE name = "Moehren" -> "moehren"
      [] name = ":Ol" -> ":ol"
      [] name = "MOEHREN" -> "moehren"
      [] name = "M:ohren" -> "m:ohren"
      [] name = "Moehre" -> "moehre"
      [] name = "Moehrchen" -> "moehrchen"
      [] name = "Salz" -> "salz"
      [] name = "Moehren (Bio)" -> "moehren (bio)"
      [] OTHER -> name

\* func.lower of the queries: the lower() of SQLite (db.py: the default
\* DATABASE_URL) changes the letters A-Z only
sql_lower(name) == IF name = ":Ol" THEN ":Ol" ELSE Lower(name)

\* utils.normalize_name: lower case, umlauts to digraphs, trimmed
normalize_name(name) ==
    IF Lower(name) = "m:ohren" THEN "moehren"
    ELSE IF Lower(name) = ":ol" THEN "oel"
    ELSE Lower(name)

\* re.sub(r"\s*\([^)]*\)", "", name).strip()
StripParens(name) == IF name = "Moehren (Bio)" THEN "Moehren" ELSE name

\* SequenceMatcher(None, a, b).ratio() in thousandths, on normalized names
Ratio(a, b) ==
    IF a = b THEN 1000
    ELSE IF {a, b} = {"moehren", "moehre"} THEN 923
    ELSE IF {a, b} = {"moehren", "moehren (bio)"} THEN 700
    ELSE IF {a, b} = {"moehre", "moehren (bio)"} THEN 631
    ELSE IF {a, b} = {"moehren", "moehrchen"} THEN 875
    ELSE IF {a, b} = {"moehre", "moehrchen"} THEN 800
    ELSE IF {a, b} = {"moehren (bio)", "moehrchen"} THEN 636
    ELSE 0

Qty1(n, u) == <<NumPart(n * Cent, u, "c")>>

\* ShoppingTemplate "T" and its template_items
TemplateItems == << [name |-> "Moehren", menge |-> Qty1(2, "g")],
                    [name |-> "Salz", menge |-> None] >>

\* Recipe r1: the lines of its ingredients text, each as the quantity token
\* the ingredient pattern extracts (None: no token) and the rest of the line
RecipeLines == << [menge |-> <<NumPart(Cent, "g", "v")>>, name |-> "Moehren (Bio)"],
                  [menge |-> None, name |-> "Salz"] >>

\* Product rows of the first store
Products == { [name |-> "Moehren", fresh |-> TRUE] }

(***************************************************************************)
(* items.py: lookup of shopping-list lines.  The shopping list is the      *)
(* sequence of Item rows in insertion order; a lookup yields the index of  *)
(* the row found, 0 for None.                                              *)
(***************************************************************************)
First(S) == IF S = {} THEN 0 ELSE CHOOSE i \in S : \A j \in S : i <= j

Cands(its, shopping_date, store_id) ==
    {i \in 1..Len(its) : /\ its[i].shopping_date = shopping_date
                         /\ (store_id = NoStore \/ its[i].store_id = store_id)}

_find_exact_product_match(prods, item_name) ==
    \E p \in prods : sql_lower(p.name) = sql_lower(item_name)

_find_existing_item_exact(its, item_name, shopping_date, store_id) ==
    First({i \in Cands(its, shopping_date, store_id) :
             sql_lower(its[i].name) = sql_lower(item_name)})

\* find_similar_item that takes the first line that reaches the threshold
find_similar_item_first(its, item_name, threshold, shopping_date, store_id) ==
    First({i \in Cands(its, shopping_date, store_id) :
             Ratio(normalize_name(item_name), normalize_name(its[i].name)) >= threshold})

find_similar_item(its, item_name, threshold, shopping_date, store_id) ==
    LET R(i) == Ratio(normalize_name(item_name), normalize_name(its[i].name))
        ok == {i \in Cands(its, shopping_date, store_id) : R(i) >= threshold}
    IN IF ok = {} THEN 0
       ELSE CHOOSE i \in ok : \A j \in ok : R(i) > R(j) \/ (R(i) = R(j) /\ i <= j)

_find_existing_item(its, item_name, shopping_date, store_id) ==
    LET e == _find_existing_item_exact(its, item_name, shopping_date, store_id)
    IN IF e # 0 THEN e
       ELSE find_similar_item(its, item_name, FuzzyThreshold, shopping_date, store_id)

_find_item_by_match_strategy(prods, its, name, shopping_date, store_id) ==
    IF _find_exact_product_match(prods, name)
    THEN _find_existing_item_exact(its, name, shopping_date, store_id)
    ELSE _find_existing_item(its, name, shopping_date, store_id)

(***************************************************************************)
(* weekplan.py: steps on one shopping-list line.  Every loop of the        *)
(* reconciler looks a name up on the list and merges, retracts or creates  *)
(* one line; which lines a handler works on, with which quantity, depends  *)
(* on the entry, its deltas and the catalog alone.  A handler is modelled  *)
(* as the plan of its line steps, in the order the code takes them, and    *)
(* the request runs the plan on the list.  A step is a record              *)
(* [finder, act, name, menge, shopping_date, store_id].                    *)
(***************************************************************************)
NewItem(its, name, menge, shopping_date, store_id) ==
    Append(its, [name |-> name, menge |-> menge,
                 shopping_date |-> shopping_date, store_id |-> store_id])

\* merged_menge is None or merged_menge.strip() == ""
Blank(menge) == menge = None \/ menge = EmptyText

\* the hundredths whose nearest float lies above them (0.05 is stored as
\* 0.05000000000000000277, 0.15 as 0.1499999999999999944)
StoredAbove == {5}

\* f"{adjusted_value:.2f}" of value * (person_count / original_person_count)
\* in hundredths: the nearest hundredth, and for a product half-way between
\* two hundredths the even one when the float is exact (quarters), else the
\* side the stored float lies on
Format2(num, person_count, original_person_count) ==
    LET a == Abs(num) * person_count
        q == a \div original_person_count
        r == a % original_person_count
        up == \/ 2 * r > original_person_count
              \/ /\ 2 * r = original_person_count
                 /\ IF Abs(num) % 25 = 0 THEN q % 2 = 1 ELSE Abs(num) \in StoredAbove
        m == IF up THEN q + 1 ELSE q
    IN IF num < 0 THEN 0 - m ELSE m

\* value * person_count / original_person_count, written as a whole number
\* or with "%.2f"; the text as it is when it has no number or the original
\* count is 0 or None
_adjust_quantity_by_person_count(original_menge, person_count, original_person_count) ==
    LET p == parse_quantity(original_menge) IN
    IF ~Truthy(original_menge) THEN original_menge
    ELSE IF ~p.ok THEN original_menge
    ELSE IF original_person_count \in {0, NoCount} THEN original_menge
    ELSE LET adjusted == Format2(p.num, person_count, original_person_count)
         IN <<NumPart(adjusted, p.unit, IF adjusted % Cent = 0 THEN "c" ELSE "v")>> \o p.rest

find_by(finder, its, name, shopping_date, store_id) ==
    IF finder = "strategy"
    THEN _find_item_by_match_strategy(Products, its, name, shopping_date, store_id)
    ELSE _find_existing_item(its, name, shopping_date, store_id)

\* One line step.  The acts are the bodies of the loops of the code:
\*   "add"        merge into the line found (delete it when the merge is
\*                blank), else create the line: the add loops,
\*                _handle_merged_items, _add_or_merge_ingredient_item
\*   "add_qty"    as "add", only for a contribution with a quantity:
\*                _add_back_unmarked_recipe_items
\*   "sub"        for a line found and a contribution with a quantity, merge
\*                the negated quantity unless that is empty, and delete the
\*                line when the merge is blank: _subtract_item_quantity
\*   "pc_add"     merge into the line found and keep the line as it is when
\*                the merge is blank, else create: _handle_person_count_change
\*   "pc_add_qty" as "pc_add", only for a contribution with a quantity:
\*                _handle_recipe_person_count_change
\*   "manual"     as "add", but a negative quantity that finds no line is
\*                dropped: create_item
\* Skips of a create_item that stores a negative quantity as a new line
skips_without_dummy(step, i) ==
    LET q == step.menge
        inc == IF step.act = "sub" THEN _create_negative_quantity(q) ELSE q
    IN \/ step.act \in {"add_qty", "sub", "pc_add_qty"} /\ ~Truthy(q)
       \/ step.act = "sub" /\ (i = 0 \/ ~Truthy(inc))

\* the step leaves the list alone, whether or not it found the line i
Skips(step, i) ==
    LET q == step.menge
        inc == IF step.act = "sub" THEN _create_negative_quantity(q) ELSE q
    IN \/ step.act \in {"add_qty", "sub", "pc_add_qty"} /\ ~Truthy(q)
       \/ step.act = "sub" /\ (i = 0 \/ ~Truthy(inc))
       \/ step.act = "manual" /\ i = 0 /\ Truthy(q)
             /\ parse_quantity(q).ok /\ parse_quantity(q).num < 0

\* the step on the list when its lookup has found the line i (0: none)
LineStepAt(its, step, i) ==
    LET q == step.menge
        inc == IF step.act = "sub" THEN _create_negative_quantity(q) ELSE q
        m == merge_quantities(its[i].menge, inc)
    IN IF Skips(step, i) THEN its
       ELSE IF i = 0 THEN NewItem(its, step.name, q, step.shopping_date, step.store_id)
       ELSE IF ~Blank(m) THEN [its EXCEPT ![i].menge = m]
       ELSE IF step.act \in {"pc_add", "pc_add_qty"} THEN its
       ELSE RemoveAt(its, i)

LineStep(its, step) ==
    LineStepAt(its, step, find_by(step.finder, its, step.name, step.shopping_date, step.store_id))

\* The steps of plan applied to the list one after the other.  The result
\* is the list and, in sel, the lines the steps selected for a merge or a
\* retraction: per step that finds a line and works on it, the name, date
\* and store asked for and the line found.
RECURSIVE Trace(_, _, _)
Trace(its, plan, picks) ==
    IF plan = << >> THEN [its |-> its, sel |-> picks]
    ELSE LET step == Head(plan)
             i == find_by(step.finder, its, step.name, step.shopping_date, step.store_id)
         IN Trace(LineStepAt(its, step, i), Tail(plan),
                  IF i # 0 /\ ~Skips(step, i)
                  THEN picks \cup {[name |-> step.name, shopping_date |-> step.shopping_date,
                                    store_id |-> step.store_id, line |-> its[i]]}
                  ELSE picks)

Run(its, plan) == Trace(its, plan, {}).its

(***************************************************************************)
(* weekplan.py: contributions of a plan entry.  A contribution is a record *)
(* [name, menge]; deltas are [present, removed_items, added_items,         *)
(* person_count] with present = FALSE for an entry stored without deltas.  *)
(***************************************************************************)
NoDeltas == [present |-> FALSE, removed_items |-> {}, added_items |-> << >>,
             person_count |-> NoCount]

\* _calculate_shopping_date as the reconciler calls it: cadence from the
\* environment defaults, freshness from the Product row named like the item
shopping_date_of(now, weekplan_date, item_name, meal) ==
    _calculate_shopping_date(now, weekplan_date, meal,
                             \E p \in Products : p.name = item_name /\ p.fresh,
                             MAIN_SHOPPING_DAY, FRESH_PRODUCTS_DAY)

\* the line steps of one loop over the contributions todo
Steps(todo, finder, act, now, weekplan_date, meal) ==
    [k \in 1..Len(todo) |->
        [finder |-> finder, act |-> act, name |-> todo[k].name, menge |-> todo[k].menge,
         shopping_date |-> shopping_date_of(now, weekplan_date, todo[k].name, meal),
         store_id |-> FirstStore]]

\* where the loop of the steps calls session.commit(): in "each" iteration
\* that works on a line, once at the "end" of the loop, or not at all
\* ("none": the changes wait for a later commit of the request)
Committing(plan, mode) ==
    [k \in 1..Len(plan) |->
        [commit |-> (mode = "each" \/ (mode = "end" /\ k = Len(plan)))] @@ plan[k]]

\* the template items outside skip, scaled to person_count
TemplateTodo(skip, person_count) ==
    LET keep == SelectSeq(TemplateItems, LAMBDA ti : ti.name \notin skip)
    IN [k \in 1..Len(keep) |->
          [name |-> keep[k].name,
           menge |-> IF person_count # NoCount
                     THEN _adjust_quantity_by_person_count(keep[k].menge, person_count, BasePersons)
                     ELSE keep[k].menge]]

\* _parse_ingredient_line: quantity token and name without parentheses
_parse_ingredient_line(line) == [quantity_str |-> line.menge, name |-> StripParens(line.name)]

_create_removed_items_set(removed_items) == {StripParens(n) : n \in removed_items}

\* RecipeTodo without the default: a line without quantity has none
recipe_todo_no_default(skip, person_count) ==
    LET keep == SelectSeq(RecipeLines, LAMBDA l : _parse_ingredient_line(l).name \notin skip)
    IN [k \in 1..Len(keep) |->
          [name |-> _parse_ingredient_line(keep[k]).name,
           menge |-> IF person_count # NoCount /\ Truthy(keep[k].menge)
                     THEN _adjust_quantity_by_person_count(keep[k].menge, person_count, BasePersons)
                     ELSE keep[k].menge]]

\* the recipe ingredients outside skip; a line without quantity counts "1",
\* a line with a quantity is scaled to person_count
RecipeTodo(skip, person_count) ==
    LET keep == SelectSeq(RecipeLines, LAMBDA l : _parse_ingredient_line(l).name \notin skip)
    IN [k \in 1..Len(keep) |->
          [name |-> _parse_ingredient_line(keep[k]).name,
           menge |-> IF ~Truthy(keep[k].menge) THEN <<NumPart(Cent, NoUnit, "c")>>
                     ELSE IF person_count # NoCount
                     THEN _adjust_quantity_by_person_count(keep[k].menge, person_count, BasePersons)
                     ELSE keep[k].menge]]

(***************************************************************************)
(* weekplan.py: Create and Delete of the contributions of one entry.       *)
(* cat = [template, recipe, store] tells which catalog rows exist.         *)
(***************************************************************************)
DeltaRemoved(deltas) == IF deltas.present THEN deltas.removed_items ELSE {}
DeltaCount(deltas) == IF deltas.present THEN deltas.person_count ELSE NoCount
DeltaAdded(deltas) == IF deltas.present THEN deltas.added_items ELSE << >>

\* the steps of the template loop and of the added_items loop of an entry
TemplatePlan(act, now, weekplan_date, meal, deltas) ==
    Committing(Steps(TemplateTodo(DeltaRemoved(deltas), DeltaCount(deltas)), "fuzzy", act,
                     now, weekplan_date, meal), "each")
    \o Committing(Steps(DeltaAdded(deltas), "fuzzy", act, now, weekplan_date, meal),
                  IF act = "add" THEN "end" ELSE "each")

RecipePlan(act, now, weekplan_date, meal, deltas) ==
    Committing(Steps(RecipeTodo(_create_removed_items_set(DeltaRemoved(deltas)), DeltaCount(deltas)),
                     "strategy", act, now, weekplan_date, meal),
               IF act = "add" THEN "end" ELSE "each")
    \o Committing(Steps(DeltaAdded(deltas), "strategy", act, now, weekplan_date, meal),
                  IF act = "add" THEN "end" ELSE "each")

_add_template_items_to_shopping_list(cat, now, template_name, weekplan_date, meal, deltas) ==
    IF weekplan_date < now THEN << >>
    ELSE IF ~(cat.template /\ template_name = TemplateName) THEN << >>
    ELSE IF ~cat.store THEN << >>
    ELSE TemplatePlan("add", now, weekplan_date, meal, deltas)

\* _remove_template_items_from_shopping_list without the look-up of the template
remove_template_items_unchecked(cat, now, template_name, weekplan_date, meal, deltas) ==
    IF weekplan_date < now THEN << >>
    ELSE IF ~cat.store THEN << >>
    ELSE TemplatePlan("sub", now, weekplan_date, meal, deltas)

_remove_template_items_from_shopping_list(cat, now, template_name, weekplan_date, meal, deltas) ==
    IF weekplan_date < now THEN << >>
    ELSE IF ~(cat.template /\ template_name = TemplateName) THEN << >>
    ELSE IF ~cat.store THEN << >>
    ELSE TemplatePlan("sub", now, weekplan_date, meal, deltas)

_add_recipe_items_to_shopping_list(cat, now, recipe_id, weekplan_date, meal, deltas) ==
    IF weekplan_date < now THEN << >>
    ELSE IF ~(cat.recipe /\ recipe_id = RecipeId) THEN << >>
    ELSE IF ~cat.store THEN << >>
    ELSE RecipePlan("add", now, weekplan_date, meal, deltas)

_remove_recipe_items_from_shopping_list(cat, now, recipe_id, weekplan_date, meal, deltas) ==
    IF weekplan_date < now THEN << >>
    ELSE IF ~(cat.recipe /\ recipe_id = RecipeId) THEN << >>
    ELSE IF ~cat.store THEN << >>
    ELSE RecipePlan("sub", now, weekplan_date, meal, deltas)

\* the branch create_weekplan_entry takes on entry_type and recipe_id
create_binding(entry) ==
    IF entry.entry_type = "recipe" /\ entry.recipe_id # NoRecipe THEN "recipe"
    ELSE IF entry.entry_type = "template" THEN "template"
    ELSE IF entry.recipe_id # NoRecipe THEN "recipe"
    ELSE "template"

\* the dispatch of create_weekplan_entry on entry_type and recipe_id
create_dispatch(cat, now, entry) ==
    IF create_binding(entry) = "recipe"
    THEN _add_recipe_items_to_shopping_list(cat, now, entry.recipe_id, entry.date, entry.meal, entry.deltas)
    ELSE _add_template_items_to_shopping_list(cat, now, entry.text, entry.date, entry.meal, entry.deltas)

\* the branch delete_weekplan_entry takes
delete_binding(entry) ==
    IF entry.entry_type = "recipe" /\ entry.recipe_id # NoRecipe THEN "recipe"
    ELSE IF entry.entry_type = "template" THEN "template"
    ELSE IF entry.recipe_id # NoRecipe THEN "recipe"
    ELSE "template"

\* the dispatch of delete_weekplan_entry
delete_dispatch(cat, now, entry) ==
    IF delete_binding(entry) = "recipe"
    THEN _remove_recipe_items_from_shopping_list(cat, now, entry.recipe_id, entry.date, entry.meal, entry.deltas)
    ELSE _remove_template_items_from_shopping_list(cat, now, entry.text, entry.date, entry.meal, entry.deltas)

(***************************************************************************)
(* weekplan.py: Update of the deltas of one entry.  The sets the handlers  *)
(* iterate (newly removed, added back, added and dropped ad-hoc names)     *)
(* hold at most one name under the inputs of this model, so the iteration  *)
(* order of a Python set does not matter.                                  *)
(***************************************************************************)
TemplateNames == {TemplateItems[k].name : k \in 1..Len(TemplateItems)}
RecipeNames == {_parse_ingredient_line(RecipeLines[k]).name : k \in 1..Len(RecipeLines)}
AddedNames(added_items) == {added_items[k].name : k \in 1..Len(added_items)}

\* the values of {item.name: item for item in added_items} for the keys in names
AddedOf(added_items, names) ==
    SelectSeq(added_items, LAMBDA a : a.name \in names)

\* as RecipeTodo, for the person-count handler: a line without quantity has none
RecipePcTodo(skip, person_count) ==
    LET keep == SelectSeq(RecipeLines, LAMBDA l : _parse_ingredient_line(l).name \notin skip)
    IN [k \in 1..Len(keep) |->
          [name |-> _parse_ingredient_line(keep[k]).name,
           menge |-> IF person_count # NoCount /\ Truthy(keep[k].menge)
                     THEN _adjust_quantity_by_person_count(keep[k].menge, person_count, BasePersons)
                     ELSE keep[k].menge]]

_handle_person_count_change(now, entry, old_person_count, new_person_count, old_removed, new_removed) ==
    Committing(Steps(TemplateTodo(old_removed, old_person_count), "fuzzy", "sub",
                     now, entry.date, entry.meal), "each")
    \o (IF new_person_count # NoCount
        THEN Committing(Steps(TemplateTodo(new_removed, new_person_count), "fuzzy", "pc_add",
                              now, entry.date, entry.meal), "each")
        ELSE << >>)

_handle_recipe_person_count_change(now, entry, old_person_count, new_person_count, old_removed, new_removed) ==
    Committing(Steps(RecipePcTodo(old_removed, old_person_count), "strategy", "sub",
                     now, entry.date, entry.meal), "each")
    \o (IF new_person_count # NoCount
        THEN Committing(Steps(RecipePcTodo(new_removed, new_person_count), "strategy", "pc_add_qty",
                              now, entry.date, entry.meal), "none")
        ELSE << >>)

_remove_newly_marked_items(now, entry, newly_removed, person_count) ==
    Committing(Steps(TemplateTodo(TemplateNames \ newly_removed, person_count), "fuzzy", "sub",
           now, entry.date, entry.meal), "each")

\* _add_back_unmarked_items without the scaling to person_count
add_back_unmarked_items_unscaled(now, entry, newly_added_back, person_count) ==
    Committing(Steps(TemplateTodo(TemplateNames \ newly_added_back, NoCount), "fuzzy", "add",
           now, entry.date, entry.meal), "each")

_add_back_unmarked_items(now, entry, newly_added_back, person_count) ==
    Committing(Steps(TemplateTodo(TemplateNames \ newly_added_back, person_count), "fuzzy", "add",
           now, entry.date, entry.meal), "each")

_remove_newly_marked_recipe_items(now, entry, newly_removed, person_count) ==
    Committing(Steps(RecipeTodo(RecipeNames \ newly_removed, person_count), "strategy", "sub",
           now, entry.date, entry.meal), "none")

_add_back_unmarked_recipe_items(now, entry, newly_added_back, person_count) ==
    Committing(Steps(RecipeTodo(RecipeNames \ newly_added_back, person_count), "fuzzy", "add_qty",
           now, entry.date, entry.meal), "none")

_handle_added_items_changes(now, entry, old_deltas, new_deltas) ==
    LET old_added == DeltaAdded(old_deltas)
        new_added == new_deltas.added_items
        newly_added_item_names == AddedNames(new_added) \ AddedNames(old_added)
        removed_from_added == AddedNames(old_added) \ AddedNames(new_added)
    IN Committing(Steps(AddedOf(old_added, removed_from_added), "fuzzy", "sub",
                        now, entry.date, entry.meal), "each")
       \o Committing(Steps(AddedOf(new_added, newly_added_item_names), "fuzzy", "add",
                           now, entry.date, entry.meal), "each")

_update_template_deltas(cat, now, entry, old_deltas, new_deltas) ==
    IF ~(cat.template /\ entry.text = TemplateName) THEN << >>
    ELSE IF ~cat.store THEN << >>
    ELSE LET old_removed == DeltaRemoved(old_deltas)
             new_removed == new_deltas.removed_items
             old_person_count == DeltaCount(old_deltas)
             new_person_count == new_deltas.person_count
         IN (IF old_person_count # new_person_count
             THEN _handle_person_count_change(now, entry, old_person_count,
                                              new_person_count, old_removed, new_removed)
             ELSE << >>)
            \o _remove_newly_marked_items(now, entry, new_removed \ old_removed, new_person_count)
            \o _add_back_unmarked_items(now, entry, old_removed \ new_removed, new_person_count)
            \o _handle_added_items_changes(now, entry, old_deltas, new_deltas)

_update_recipe_deltas(cat, now, entry, old_deltas, new_deltas) ==
    IF ~(cat.recipe /\ entry.recipe_id = RecipeId) THEN << >>
    ELSE IF ~cat.store THEN << >>
    ELSE LET old_removed == _create_removed_items_set(DeltaRemoved(old_deltas))
             new_removed == _create_removed_items_set(new_deltas.removed_items)
             old_person_count == DeltaCount(old_deltas)
             new_person_count == new_deltas.person_count
         IN (IF old_person_count # new_person_count
             THEN _handle_recipe_person_count_change(now, entry, old_person_count,
                                                     new_person_count, old_removed, new_removed)
             ELSE << >>)
            \o _remove_newly_marked_recipe_items(now, entry, new_removed \ old_removed, new_person_count)
            \o _add_back_unmarked_recipe_items(now, entry, old_removed \ new_removed, new_person_count)
            \o _handle_added_items_changes(now, entry, old_deltas, new_deltas)

\* the dispatch of update_weekplan_entry_deltas on recipe_id alone
update_binding(entry) == IF entry.recipe_id # NoRecipe THEN "recipe" ELSE "template"

update_dispatch(cat, now, entry, new_deltas) ==
    IF update_binding(entry) = "recipe"
    THEN _update_recipe_deltas(cat, now, entry, entry.deltas, new_deltas)
    ELSE _update_template_deltas(cat, now, entry, entry.deltas, new_deltas)

(***************************************************************************)
(* State of the reconciler model and the requests it serves                *)
(***************************************************************************)
MaxEntries == 2      \* plan entries created in one behaviour
MaxSteps == 3        \* requests served in one behaviour
MealAhead == 4       \* a future meal is MealAhead days after today
ManyPersons == 4     \* the person_count override of the inputs

StartDay == WeekLen  \* today, a Monday
EntryDates == {StartDay - 1, StartDay + MealAhead}
EntryMeals == {"dinner"}
EntryShapes ==
    { [text |-> TemplateName, entry_type |-> "template", recipe_id |-> NoRecipe],
      [text |-> "Lasagne", entry_type |-> "recipe", recipe_id |-> RecipeId] }

AddedInputs == { << >>,
                 << [name |-> "Salz", menge |-> None] >>,
                 << [name |-> "Moehre", menge |-> Qty1(1, "g")] >> }
PresentDeltas ==
    { [present |-> TRUE, removed_items |-> r, added_items |-> a, person_count |-> c] :
        r \in {{}, {"Moehren"}}, a \in AddedInputs, c \in {NoCount, ManyPersons} }
    \cup { [present |-> TRUE, removed_items |-> {"Moehren (Bio)"}, added_items |-> << >>,
             person_count |-> NoCount],
           [present |-> TRUE, removed_items |-> {},
            added_items |-> << [name |-> "Moehre", menge |-> Qty1(2, "g")] >>,
            person_count |-> NoCount],
           [present |-> TRUE, removed_items |-> {"Moehren"},
            added_items |-> << [name |-> "Moehre", menge |-> None] >>,
            person_count |-> NoCount] }
DeltaInputs == {NoDeltas} \cup PresentDeltas

FreeEntry == [state |-> "free", date |-> 0, meal |-> "dinner", text |-> "",
              entry_type |-> "text", recipe_id |-> NoRecipe, deltas |-> NoDeltas]

\* The identity a line name resolves to: names at least 0.8 similar are one
Ident(name) == IF name = "Moehre" THEN "Moehren" ELSE StripParens(name)

LineDates == {shopping_date_of(StartDay, d, n, m) : d \in EntryDates, n \in ItemNames, m \in EntryMeals}
Keys == {"Moehren", "Salz"} \X LineDates \X Units

Amount(menge, unit) ==
    LET RECURSIVE Sum(_)
        Sum(k) == IF k = 0 THEN 0
                  ELSE Sum(k - 1) + (IF menge[k].kind = "num" /\ menge[k].unit = unit
                                     THEN menge[k].num ELSE 0)
    IN Sum(Len(menge))

\* numeric quantity on the list, per identity, shopping date and unit
Qty(its) ==
    LET RECURSIVE Total(_, _)
        Total(k, key) ==
            IF k = 0 THEN 0
            ELSE Total(k - 1, key)
                 + (IF Ident(its[k].name) = key[1] /\ its[k].shopping_date = key[2]
                    THEN Amount(its[k].menge, key[3]) ELSE 0)
    IN [key \in Keys |-> Total(Len(its), key)]

ZeroQty == [key \in Keys |-> 0]
QtyPlus(a, b) == [key \in Keys |-> a[key] + b[key]]
QtyMinus(a, b) == [key \in Keys |-> a[key] - b[key]]

\* every binding the entry names is gone
BindingGone(entry, cat) ==
    /\ entry.text = TemplateName => ~cat.template
    /\ entry.recipe_id # NoRecipe => ~cat.recipe

NoRequest == [op |-> "none", id |-> 0, entry |-> FreeEntry, before |-> << >>,
              cat |-> [template |-> TRUE, recipe |-> TRUE, store |-> TRUE]]

RcIdle ==
    /\ clock = StartDay
    /\ catalog = [template |-> TRUE, recipe |-> TRUE, store |-> TRUE]
    /\ weekplan = [id \in 1..MaxEntries |-> FreeEntry]
    /\ items = << >>
    /\ steps = 0
    /\ led = [id \in 1..MaxEntries |-> ZeroQty]
    /\ last = NoRequest
    /\ pure = TRUE
    /\ sel = {}

\* items.py create_item: merge into the line found, drop a negative quantity
\* that finds no line, else store a new line
create_item(name, menge, shopping_date, store_id) ==
    << [finder |-> "fuzzy", act |-> "manual", name |-> name, menge |-> menge,
        shopping_date |-> shopping_date, store_id |-> store_id, commit |-> TRUE] >>

\* the payloads of POST /items: on the trip the plan entries put the name
\* on and in the first store, and "Moehre" also without a store, in
\* another store and on the other trip
ManualInputs ==
    { [name |-> n, menge |-> m, store_id |-> FirstStore,
       shopping_date |-> shopping_date_of(StartDay, StartDay + MealAhead, Ident(n), "dinner")] :
        n \in {"Moehre", "Salz"}, m \in {None, Qty1(1, "g")} }
    \cup
    { [name |-> "Moehre", menge |-> Qty1(1, "g"), store_id |-> st,
       shopping_date |-> shopping_date_of(StartDay, StartDay + MealAhead, "Moehren", "dinner")] :
        st \in {NoStore, OtherStore} }
    \cup
    { [name |-> "Moehre", menge |-> Qty1(1, "g"), store_id |-> FirstStore,
       shopping_date |-> shopping_date_of(StartDay, StartDay + MealAhead, "Salz", "dinner")] }

\* the request op on the entry id runs plan on the list
Served(op, id, entry, plan) ==
    /\ LET r == Trace(items, plan, {})
       IN items' = r.its /\ sel' = r.sel
    /\ steps' = steps + 1
    /\ led' = [led EXCEPT ![id] = QtyPlus(@, QtyMinus(Qty(items'), Qty(items)))]
    /\ pure' = (pure /\ entry.date >= clock)
    /\ last' = IF op = "delete" /\ last.op = "create" /\ last.id = id
               THEN [last EXCEPT !.op = "create_delete"]
               ELSE [op |-> op, id |-> id, entry |-> entry, before |-> items, cat |-> catalog]

\* POST /entries (create_weekplan_entry)
CreateEntry ==
    /\ steps < MaxSteps
    /\ \E id \in 1..MaxEntries, shape \in EntryShapes, date \in EntryDates,
          meal \in EntryMeals, deltas \in DeltaInputs :
        /\ weekplan[id].state = "free"
        /\ \A j \in 1..(id - 1) : weekplan[j].state # "free"
        /\ LET entry == [state |-> "live", date |-> date, meal |-> meal,
                         text |-> shape.text, entry_type |-> shape.entry_type,
                         recipe_id |-> shape.recipe_id, deltas |-> deltas]
           IN /\ weekplan' = [weekplan EXCEPT ![id] = entry]
              /\ Served("create", id, entry, create_dispatch(catalog, clock, entry))
    /\ UNCHANGED <<clock, catalog, mq_vars, sd_vars, lp_vars, fn_vars, rq_vars>>

\* PATCH /entries/{id}/deltas (update_weekplan_entry_deltas)
UpdateDeltas ==
    /\ steps < MaxSteps
    /\ \E id \in 1..MaxEntries, deltas \in PresentDeltas :
        /\ weekplan[id].state = "live"
        /\ weekplan' = [weekplan EXCEPT ![id].deltas = deltas]
        /\ Served("update", id, weekplan[id],
                  update_dispatch(catalog, clock, weekplan[id], deltas))
    /\ UNCHANGED <<clock, catalog, mq_vars, sd_vars, lp_vars, fn_vars, rq_vars>>

\* DELETE /entries/{id} (delete_weekplan_entry)
DeleteEntry ==
    /\ steps < MaxSteps
    /\ \E id \in 1..MaxEntries :
        /\ weekplan[id].state = "live"
        /\ weekplan' = [weekplan EXCEPT ![id].state = "gone"]
        /\ Served("delete", id, weekplan[id],
                  delete_dispatch(catalog, clock, weekplan[id]))
    /\ UNCHANGED <<clock, catalog, mq_vars, sd_vars, lp_vars, fn_vars, rq_vars>>

\* POST /items (create_item): a manual add to the shared list
CreateItem ==
    /\ steps < MaxSteps
    /\ catalog.store
    /\ \E it \in ManualInputs :
        LET r == Trace(items, create_item(it.name, it.menge, it.shopping_date, it.store_id), {})
        IN items' = r.its /\ sel' = r.sel
    /\ steps' = steps + 1
    /\ pure' = FALSE
    /\ last' = [NoRequest EXCEPT !.op = "item", !.before = items, !.cat = catalog]
    /\ UNCHANGED <<clock, catalog, weekplan, led, mq_vars, sd_vars, lp_vars, fn_vars, rq_vars>>

Dropped(what) ==
    /\ steps < MaxSteps
    /\ catalog[what]
    /\ catalog' = [catalog EXCEPT ![what] = FALSE]
    /\ steps' = steps + 1
    /\ pure' = FALSE
    /\ last' = [NoRequest EXCEPT !.op = "catalog", !.before = items, !.cat = catalog]
    /\ UNCHANGED <<clock, weekplan, items, led, sel, mq_vars, sd_vars, lp_vars, fn_vars, rq_vars>>

\* DELETE /templates/{id} (delete_template)
DeleteTemplate == Dropped("template")

\* a recipe listed as deleted by the WebDAV import (_skip_deleted_recipes)
DeleteRecipe == Dropped("recipe")

\* DELETE /stores/{id} (delete_store): the lines of the store stay
DeleteStore == Dropped("store")

(***************************************************************************)
(* Driver of the quantity algebra                                          *)
(***************************************************************************)
PosMags == {k * Cent : k \in 1..MaxMag}
AllMags == {k * Cent : k \in (0 - MaxMag)..MaxMag}
PosTerms == {NumPart(n, u, f) : n \in PosMags, u \in Units, f \in Forms}
AllTerms == {NumPart(n, u, f) : n \in AllMags, u \in Units, f \in Forms}

ValidExprs ==
    {None} \cup {<<t>> : t \in PosTerms}
           \cup {p \in PosTerms \X PosTerms : p[1].unit # p[2].unit}

IncomingTexts ==
    UNION {[1..n -> AllTerms] : n \in 1..MaxParts}

MqIdle ==
    /\ existing_menge = None
    /\ new_menge = None
    /\ merged_menge = None
    /\ retracted_menge = None
    /\ mq_pc = "idle"
    /\ mq_ops = << >>
    /\ mq_outcomes = {}
    /\ mq_n = 0

\* round trip: a valid expression Q and a single term X
MqInitRoundTrip ==
    /\ existing_menge \in ValidExprs
    /\ new_menge \in {<<t>> : t \in AllTerms}
    /\ merged_menge = None
    /\ retracted_menge = None
    /\ mq_pc = "start"
    /\ mq_ops = << >>
    /\ mq_outcomes = {}
    /\ mq_n = 0

\* merge sequence: starts from none
MqInitSequence ==
    /\ existing_menge = None
    /\ new_menge = None
    /\ merged_menge = None
    /\ retracted_menge = None
    /\ mq_pc = "seq"
    /\ mq_ops = << >>
    /\ mq_outcomes = {}
    /\ mq_n = 0

\* merged = merge(Q, X)
MergeX ==
    /\ mq_pc = "start"
    /\ merged_menge' = merge_quantities(existing_menge, new_menge)
    /\ mq_pc' = "merged"
    /\ UNCHANGED <<existing_menge, new_menge, retracted_menge, mq_ops, mq_outcomes, mq_n>>
    /\ UNCHANGED <<sd_vars, rc_vars, lp_vars, fn_vars, rq_vars>>

\* retracted = merge(merge(Q, X), negate(X))
RetractX ==
    /\ mq_pc = "merged"
    /\ retracted_menge' = merge_quantities(merged_menge, _create_negative_quantity(new_menge))
    /\ mq_pc' = "retracted"
    /\ UNCHANGED <<existing_menge, new_menge, merged_menge, mq_ops, mq_outcomes, mq_n>>
    /\ UNCHANGED <<sd_vars, rc_vars, lp_vars, fn_vars, rq_vars>>

\* one more merge of an incoming text into the stored expression
MergeNext ==
    /\ mq_pc = "seq"
    /\ mq_n < MaxMerges
    /\ \E t \in IncomingTexts :
          /\ new_menge' = t
          /\ merged_menge' = merge_quantities(existing_menge, t)
          /\ existing_menge' = merge_quantities(existing_menge, t)
    /\ mq_n' = mq_n + 1
    /\ UNCHANGED <<retracted_menge, mq_ops, mq_outcomes, mq_pc>>
    /\ UNCHANGED <<sd_vars, rc_vars, lp_vars, fn_vars, rq_vars>>

\* the operations applied one after the other to the quantity of one line
RECURSIVE MergeAll(_, _)
MergeAll(menge, ops) ==
    IF ops = << >> THEN menge
    ELSE MergeAll(merge_quantities(menge, Head(ops)), Tail(ops))

Orders(n) == {p \in [1..n -> 1..n] : \A i, j \in 1..n : i # j => p[i] # p[j]}

CanonTerms == {NumPart(n, u, "c") : n \in AllMags, u \in Units}

\* orders: a valid expression Q and two single-term operations, or a Q of at
\* most one term and up to MaxOps operations in the spelling merge writes
MqInitOrders ==
    /\ \/ /\ existing_menge \in ValidExprs
          /\ mq_ops \in [1..2 -> {<<t>> : t \in AllTerms}]
       \/ /\ existing_menge \in {q \in ValidExprs : Len(q) <= 1}
          /\ \E n \in 3..MaxOps : mq_ops \in [1..n -> {<<t>> : t \in CanonTerms}]
    /\ new_menge = None
    /\ merged_menge = None
    /\ retracted_menge = None
    /\ mq_outcomes = {}
    /\ mq_pc = "orders"
    /\ mq_n = 0

\* the operations of mq_ops merged into Q in every order
MergeOrders ==
    /\ mq_pc = "orders"
    /\ mq_outcomes' = {MergeAll(existing_menge, [i \in 1..Len(mq_ops) |-> mq_ops[p[i]]]) :
                          p \in Orders(Len(mq_ops))}
    /\ mq_pc' = "ordered"
    /\ UNCHANGED <<existing_menge, new_menge, merged_menge, retracted_menge, mq_ops, mq_n>>
    /\ UNCHANGED <<sd_vars, rc_vars, lp_vars, fn_vars, rq_vars>>

\* one merge of a text of one or more terms into a valid expression
MqInitTexts ==
    /\ existing_menge \in ValidExprs
    /\ new_menge \in IncomingTexts
    /\ merged_menge = None
    /\ retracted_menge = None
    /\ mq_pc = "text"
    /\ mq_ops = << >>
    /\ mq_outcomes = {}
    /\ mq_n = 0

MergeText ==
    /\ mq_pc = "text"
    /\ merged_menge' = merge_quantities(existing_menge, new_menge)
    /\ mq_pc' = "text_merged"
    /\ UNCHANGED <<existing_menge, new_menge, retracted_menge, mq_ops, mq_outcomes, mq_n>>
    /\ UNCHANGED <<sd_vars, rc_vars, lp_vars, fn_vars, rq_vars>>

(***************************************************************************)
(* Driver of the scheduler                                                 *)
(***************************************************************************)
SdIdle ==
    /\ sd_today = 0
    /\ sd_weekplan_date = 0
    /\ sd_meal = "dinner"
    /\ sd_is_fresh = FALSE
    /\ sd_main_day = 0
    /\ sd_fresh_day = 0
    /\ sd_shopping_date = 0
    /\ sd_plain_date = 0
    /\ sd_later = 0
    /\ sd_later_date = 0
    /\ sd_pc = "idle"

SdInit ==
    /\ sd_today \in Weekdays
    /\ sd_weekplan_date \in sd_today..(sd_today + MaxAhead)
    /\ sd_meal \in Meals
    /\ sd_is_fresh \in BOOLEAN
    /\ sd_main_day \in Weekdays
    /\ sd_fresh_day \in Weekdays
    /\ sd_shopping_date = 0
    /\ sd_plain_date = 0
    /\ sd_later = 0
    /\ sd_later_date = 0
    /\ sd_pc = "start"

Schedule ==
    /\ sd_pc = "start"
    /\ sd_shopping_date' = _calculate_shopping_date(sd_today, sd_weekplan_date, sd_meal,
                                                    sd_is_fresh, sd_main_day, sd_fresh_day)
    /\ sd_plain_date' = _calculate_shopping_date(sd_today, sd_weekplan_date, sd_meal,
                                                 FALSE, sd_main_day, sd_fresh_day)
    /\ sd_pc' = "done"
    /\ UNCHANGED <<sd_today, sd_weekplan_date, sd_meal, sd_is_fresh, sd_main_day, sd_fresh_day,
                   sd_later, sd_later_date>>
    /\ UNCHANGED <<mq_vars, rc_vars, lp_vars, fn_vars, rq_vars>>

\* the Update or Delete of the entry on a later day up to the meal date:
\* the handlers compute the date of the item again, with datetime.now()
ScheduleLater ==
    /\ sd_pc = "done"
    /\ \E t1 \in (sd_today + 1)..sd_weekplan_date :
        /\ sd_later' = t1
        /\ sd_later_date' = _calculate_shopping_date(t1, sd_weekplan_date, sd_meal, sd_is_fresh,
                                                     sd_main_day, sd_fresh_day)
    /\ sd_pc' = "later"
    /\ UNCHANGED <<sd_today, sd_weekplan_date, sd_meal, sd_is_fresh, sd_main_day, sd_fresh_day,
                   sd_shopping_date, sd_plain_date>>
    /\ UNCHANGED <<mq_vars, rc_vars, lp_vars, fn_vars, rq_vars>>

(***************************************************************************)
(* Request handlers on the event loop.  Every handler is a coroutine       *)
(* (async def) of the one event loop of the server process: it runs        *)
(* without interruption from one await that suspends to the next.  The     *)
(* authentication dependency is resolved before the body; the body reads,  *)
(* merges and commits without an await (items.py 409-418 and 224-245,       *)
(* weekplan.py 1353-1374), and the awaits of a handler are the send_json calls of      *)
(* ConnectionManager.broadcast.                                            *)
(***************************************************************************)
MaxTasks == 2        \* overlapping requests
MaxUsers == 2        \* users with WebSocket connections
BaseAmount == 500    \* grams the shared line holds at the start
AddAmount == 300     \* grams one POST /items request merges into the line

ExtraConn == MaxUsers + 1
LoopDate == shopping_date_of(StartDay, StartDay + MealAhead, "Moehren", "dinner")
LoopEntry == [state |-> "live", date |-> StartDay + MealAhead, meal |-> "dinner",
              text |-> TemplateName, entry_type |-> "template", recipe_id |-> NoRecipe,
              deltas |-> NoDeltas]
LoopCatalog == [template |-> TRUE, recipe |-> TRUE, store |-> TRUE]

\* active_connections after the users in present connected, in the order
\* of their ids; user 1 holds a second connection when twice
ConnInputs ==
    { [u \in present |-> IF u = 1 /\ twice THEN {1, ExtraConn} ELSE {u}] :
        present \in SUBSET (1..MaxUsers), twice \in BOOLEAN }

KindInputs == [1..MaxTasks -> {"item", "delete"}]

NewTask(kind) ==
    [kind |-> kind, pc |-> "new", seen |-> << >>, di_used |-> 0, di_pos |-> 0, len |-> 0,
     user |-> 0, conns |-> {}, cur |-> 0, disconnected |-> {}, delivered |-> {},
     planned |-> {}, exclude_user |-> 0, websocket |-> 0]

\* the keys of active_connections in insertion order
KeysInOrder(active) ==
    SelectSeq([u \in 1..MaxUsers |-> u], LAMBDA u : u \in DOMAIN active)

LpIdle ==
    /\ lp_items = << >>
    /\ lp_entry = "live"
    /\ lp_active = << >>
    /\ lp_slots = << >>
    /\ lp_broken = {}
    /\ lp_tasks = << >>

LpInit ==
    /\ lp_items = NewItem(<< >>, "Moehren", Qty1(BaseAmount, "g"), LoopDate, FirstStore)
    /\ lp_entry = "live"
    /\ lp_active \in ConnInputs
    /\ lp_slots = KeysInOrder(lp_active)
    /\ lp_broken \in SUBSET (UNION {lp_active[u] : u \in DOMAIN lp_active})
    /\ \E k \in KindInputs : lp_tasks = [t \in 1..MaxTasks |-> NewTask(k[t])]

\* the list a handler body reads: the rows its session selects when the
\* body runs
items_at_arrival(t) == lp_tasks[t].seen

body_items(t) == lp_items

AllConns(active) == UNION {active[u] : u \in DOMAIN active}

\* disconnect that leaves the key of a user without connections in the dict
disconnect_keep(active, connection, user_id) ==
    IF user_id \notin DOMAIN active THEN active
    ELSE [active EXCEPT ![user_id] = @ \ {connection}]

\* ConnectionManager.disconnect
disconnect(active, connection, user_id) ==
    IF user_id \notin DOMAIN active THEN active
    ELSE IF active[user_id] \ {connection} = {}
    THEN [u \in DOMAIN active \ {user_id} |-> active[u]]
    ELSE [active EXCEPT ![user_id] = @ \ {connection}]

RECURSIVE disconnect_all(_, _)
disconnect_all(active, disconnected) ==
    IF disconnected = {} THEN active
    ELSE LET d == CHOOSE x \in disconnected : TRUE
         IN disconnect_all(disconnect(active, d[1], d[2]), disconnected \ {d})

\* the entries of the dict after keys were deleted: a deleted key leaves an
\* empty entry behind
Emptied(slots, active) ==
    [i \in DOMAIN slots |-> IF slots[i] \in DOMAIN active THEN slots[i] ELSE 0]

\* the entry the dict iterator standing at di_pos yields next, 0 at the end
NextEntry(slots, di_pos) ==
    IF \E i \in (di_pos + 1)..Len(slots) : slots[i] # 0
    THEN CHOOSE i \in (di_pos + 1)..Len(slots) :
             slots[i] # 0 /\ \A j \in (di_pos + 1)..(i - 1) : slots[j] = 0
    ELSE 0

\* ConnectionManager.broadcast from where it stands to its next send_json:
\* the next connection of the copy of the current user's set, else the next
\* entry of the dict iterator, which raises RuntimeError when the dict has
\* changed its size since the iteration began, or when it finds an entry
\* after it has yielded as many as the dict held
RECURSIVE broadcast(_, _, _)
broadcast(task, active, slots) ==
    IF task.conns # {}
    THEN LET c == CHOOSE x \in task.conns : \A y \in task.conns : x <= y
         IN [task EXCEPT !.pc = "send", !.cur = c, !.conns = @ \ {c}]
    ELSE IF Cardinality(DOMAIN active) # task.di_used THEN [task EXCEPT !.pc = "error"]
    ELSE LET i == NextEntry(slots, task.di_pos)
         IN IF i = 0 THEN [task EXCEPT !.pc = "finished"]
            ELSE IF task.len = 0 THEN [task EXCEPT !.pc = "error"]
            ELSE broadcast([task EXCEPT !.di_pos = i, !.len = @ - 1, !.user = slots[i],
                                        !.conns = IF slots[i] = task.exclude_user
                                                  THEN {} ELSE active[slots[i]]],
                           active, slots)

\* ConnectionManager.send_to_user from where it stands to its next
\* send_json
send_to_user(task, active) ==
    IF task.pc = "new" /\ task.user \notin DOMAIN active THEN [task EXCEPT !.pc = "returned"]
    ELSE LET conns == IF task.pc = "new" THEN active[task.user] ELSE task.conns
         IN IF conns = {} THEN [task EXCEPT !.pc = "finished"]
            ELSE LET c == CHOOSE x \in conns : \A y \in conns : x <= y
                 IN [task EXCEPT !.pc = "send", !.cur = c, !.conns = conns \ {c},
                                 !.planned = IF task.pc = "new" THEN conns ELSE @]

\* a handler resumed in broadcast runs to its next send_json, or cleans up
\* the failed connections and runs to its end (Delete removes the plan
\* entry), or is ended by the RuntimeError
ResumeIn(t, task, registered, slots) ==
    LET nxt == IF task.kind = "send_to_user" THEN send_to_user(task, registered)
               ELSE broadcast(task, registered, slots)
        active == IF nxt.pc = "finished"
                  THEN disconnect_all(registered, nxt.disconnected)
                  ELSE registered
    IN /\ lp_tasks' = [lp_tasks EXCEPT ![t] =
                          IF nxt.pc \in {"finished", "returned"}
                          THEN [nxt EXCEPT !.pc = "done"] ELSE nxt]
       /\ lp_active' = active
       /\ lp_slots' = Emptied(slots, active)
       /\ lp_entry' = IF nxt.pc = "finished" /\ nxt.kind = "delete" THEN "gone" ELSE lp_entry

Resume(t, task) == ResumeIn(t, task, lp_active, lp_slots)

\* the request is accepted; get_current_user runs before the body
Arrive(t) ==
    /\ lp_tasks[t].pc = "new"
    /\ lp_tasks' = [lp_tasks EXCEPT ![t].pc = "body", ![t].seen = lp_items]
    /\ UNCHANGED <<lp_items, lp_entry, lp_active, lp_slots, lp_broken>>
    /\ UNCHANGED <<mq_vars, sd_vars, rc_vars, fn_vars, rq_vars>>

\* the body up to its first send_json: create_item merges AddAmount g into
\* the line, delete_weekplan_entry retracts the template items; both commit
\* and begin their broadcast
Begin(t) ==
    /\ lp_tasks[t].pc = "body"
    /\ ~ (lp_tasks[t].kind = "delete" /\ lp_entry = "gone")
    /\ lp_items' = Run(body_items(t),
                       IF lp_tasks[t].kind = "item"
                       THEN create_item("Moehren", Qty1(AddAmount, "g"), LoopDate, FirstStore)
                       ELSE delete_dispatch(LoopCatalog, StartDay, LoopEntry))
    /\ Resume(t, [lp_tasks[t] EXCEPT !.di_used = Cardinality(DOMAIN lp_active),
                                     !.len = Cardinality(DOMAIN lp_active),
                                     !.planned = AllConns(lp_active)])
    /\ UNCHANGED lp_broken
    /\ UNCHANGED <<mq_vars, sd_vars, rc_vars, fn_vars, rq_vars>>

\* the awaited send_json returns or raises; the exception is caught and the
\* connection noted for the clean-up
Send(t) ==
    /\ lp_tasks[t].pc = "send"
    /\ Resume(t, IF lp_tasks[t].cur \in lp_broken
                 THEN [lp_tasks[t] EXCEPT !.disconnected = @ \cup {<<lp_tasks[t].cur, lp_tasks[t].user>>}]
                 ELSE [lp_tasks[t] EXCEPT !.delivered = @ \cup {lp_tasks[t].cur}])
    /\ UNCHANGED <<lp_items, lp_broken>>
    /\ UNCHANGED <<mq_vars, sd_vars, rc_vars, fn_vars, rq_vars>>

\* delete_weekplan_entry finds no row of the entry: 404, nothing changes
NotFound(t) ==
    /\ lp_tasks[t].pc = "body"
    /\ lp_tasks[t].kind = "delete"
    /\ lp_entry = "gone"
    /\ lp_tasks' = [lp_tasks EXCEPT ![t].pc = "not_found"]
    /\ UNCHANGED <<lp_items, lp_entry, lp_active, lp_slots, lp_broken>>
    /\ UNCHANGED <<mq_vars, sd_vars, rc_vars, fn_vars, rq_vars>>

LoopStep == \E t \in 1..MaxTasks : Arrive(t) \/ Begin(t) \/ Send(t) \/ NotFound(t)

(***************************************************************************)
(* Calls of the ConnectionManager on the event loop: connect, broadcast    *)
(* and send_to_user are coroutines suspended in accept and send_json,      *)
(* disconnect is a plain method that runs between two steps of the others. *)
(* Within the bounds the dict takes fewer insertions than its table holds, *)
(* so its entries are never moved.                                         *)
(***************************************************************************)
MaxCalls == 2        \* overlapping calls of the ConnectionManager

\* the calls made: a broadcast to all, a connect of a user with a new
\* connection, a send_to_user
CallInputs ==
    { [NewTask("broadcast") EXCEPT !.seen = t] : t \in 1..MaxCalls }
    \cup { [NewTask("connect") EXCEPT !.exclude_user = u, !.websocket = ExtraConn + t]
              : u \in 1..MaxUsers, t \in 1..MaxCalls }
    \cup { [NewTask("send_to_user") EXCEPT !.user = u, !.seen = t]
              : u \in 1..MaxUsers, t \in 1..MaxCalls }

CmInit ==
    /\ lp_items = << >>
    /\ lp_entry = "live"
    /\ lp_active \in ConnInputs
    /\ lp_slots = KeysInOrder(lp_active)
    /\ lp_broken \in SUBSET (UNION {lp_active[u] : u \in DOMAIN lp_active})
    /\ lp_tasks \in { c \in [1..MaxCalls -> CallInputs] :
                        \A t \in 1..MaxCalls :
                            /\ c[t].kind = "connect" => c[t].websocket = ExtraConn + t
                            /\ c[t].kind # "connect" => c[t].seen = t }

\* ConnectionManager.connect after accept has returned: registers the
\* connection and begins the user:joined broadcast to the other users
connect(t) ==
    LET task == lp_tasks[t]
        user_id == task.exclude_user
        registered == IF user_id \in DOMAIN lp_active
                      THEN [lp_active EXCEPT ![user_id] = @ \cup {task.websocket}]
                      ELSE lp_active @@ (user_id :> {task.websocket})
        slots == IF user_id \in DOMAIN lp_active THEN lp_slots ELSE Append(lp_slots, user_id)
    IN /\ task.pc = "new"
       /\ task.kind = "connect"
       /\ ResumeIn(t, [task EXCEPT !.di_used = Cardinality(DOMAIN registered),
                                   !.len = Cardinality(DOMAIN registered),
                                   !.planned = AllConns(registered) \ registered[user_id]],
                   registered, slots)
       /\ \E fails \in BOOLEAN :
              lp_broken' = IF fails THEN lp_broken \cup {task.websocket} ELSE lp_broken
       /\ UNCHANGED lp_items
       /\ UNCHANGED <<mq_vars, sd_vars, rc_vars, fn_vars, rq_vars>>

\* broadcast and send_to_user from their call to their first send_json
Call(t) ==
    /\ lp_tasks[t].pc = "new"
    /\ lp_tasks[t].kind \in {"broadcast", "send_to_user"}
    /\ Resume(t, [lp_tasks[t] EXCEPT !.di_used = Cardinality(DOMAIN lp_active),
                                     !.len = Cardinality(DOMAIN lp_active),
                                     !.planned = AllConns(lp_active)])
    /\ UNCHANGED <<lp_items, lp_broken>>
    /\ UNCHANGED <<mq_vars, sd_vars, rc_vars, fn_vars, rq_vars>>

\* ConnectionManager.disconnect called for a registered connection
Disconnect ==
    /\ \E user_id \in DOMAIN lp_active : \E websocket \in lp_active[user_id] :
          /\ lp_active' = disconnect(lp_active, websocket, user_id)
          /\ lp_slots' = Emptied(lp_slots, disconnect(lp_active, websocket, user_id))
    /\ UNCHANGED <<lp_items, lp_entry, lp_broken, lp_tasks>>
    /\ UNCHANGED <<mq_vars, sd_vars, rc_vars, fn_vars, rq_vars>>

CmStep == Disconnect \/ \E t \in 1..MaxCalls : connect(t) \/ Call(t) \/ Send(t)

(***************************************************************************)
(* Driver of the pure functions: one call per behaviour                    *)
(***************************************************************************)
NoCall == "none"

FnIdle ==
    /\ fn_args = NoCall
    /\ fn_result = NoCall
    /\ fn_pc = "idle"

(***************************************************************************)
(* utils.py: parse_quantity on the characters of the text.  A text is the  *)
(* sequence of its characters; "half" and "quarter" stand for the unicode  *)
(* characters U+00BD and U+00BC.  A number is the fraction [n, d] in       *)
(* lowest terms (d > 0); Python None is NoText for the text and NoUnitText *)
(* for the unit.                                                           *)
(***************************************************************************)
NoText == << >>
NoUnitText == << >>
DigitChars == {"0", "1", "2", "3", "4", "5"}
FractionChars == {"half", "quarter"}
Whitespace == {" "}

DigitVal(c) ==
    CASE c = "0" -> 0 [] c = "1" -> 1 [] c = "2" -> 2
      [] c = "3" -> 3 [] c = "4" -> 4 [] c = "5" -> 5


RECURSIVE Gcd(_, _)
Gcd(a, b) == IF b = 0 THEN a ELSE Gcd(b, a % b)

\* the number n/d
Rat(n, d) ==
    LET g == Gcd(Abs(n), d) IN [n |-> n \div g, d |-> d \div g]

RatPlus(a, b) == Rat(a.n * b.d + b.n * a.d, a.d * b.d)
RatNeg(a) == [n |-> 0 - a.n, d |-> a.d]

\* fractions_map of _convert_fraction_to_decimal
fractions_map(c) == IF c = "half" THEN Rat(1, 2) ELSE Rat(1, 4)

\* int() of a run of digits
RECURSIVE IntOf(_)
IntOf(digits) ==
    IF digits = << >> THEN 0
    ELSE 10 * IntOf(SubSeq(digits, 1, Len(digits) - 1)) + DigitVal(digits[Len(digits)])

RECURSIVE Pow10(_)
Pow10(k) == IF k = 0 THEN 1 ELSE 10 * Pow10(k - 1)

\* length of the longest prefix of text over the characters in class
RECURSIVE RunLen(_, _)
RunLen(text, class) ==
    IF text # << >> /\ Head(text) \in class THEN 1 + RunLen(Tail(text), class) ELSE 0

From(text, k) == SubSeq(text, k, Len(text))
LStrip(text) == From(text, RunLen(text, Whitespace) + 1)

RECURSIVE RStrip(_)
RStrip(text) ==
    IF text # << >> /\ text[Len(text)] \in Whitespace
    THEN RStrip(SubSeq(text, 1, Len(text) - 1)) ELSE text

\* str.strip()
Strip(text) == RStrip(LStrip(text))

NoParse == [ok |-> FALSE, num |-> Rat(0, 1), unit |-> NoUnitText]

\* _convert_fraction_to_decimal of the digits whole_part_str followed by
\* the fraction character
_convert_fraction_to_decimal(whole_part_str, fraction_char) ==
    RatPlus(Rat(IntOf(whole_part_str), 1), fractions_map(fraction_char))

\* the match of ^(-?)(\d*)([fraction character])\s*(.*)$
fraction_match(text) ==
    LET m == IF text # << >> /\ text[1] = "-" THEN 1 ELSE 0
        k == RunLen(From(text, m + 1), DigitChars)
    IN IF Len(text) > m + k /\ text[m + k + 1] \in FractionChars
       THEN [ok |-> TRUE, minus_sign |-> m = 1,
             whole_part_str |-> SubSeq(text, m + 1, m + k),
             fraction_char |-> text[m + k + 1],
             unit |-> LStrip(From(text, m + k + 2))]
       ELSE [ok |-> FALSE]

\* the match of ^(-?\d+(?:[.,]\d+)?)\s*(.*)$ and float() of its number
number_match(text) ==
    LET m == IF text # << >> /\ text[1] = "-" THEN 1 ELSE 0
        k == RunLen(From(text, m + 1), DigitChars)
        dot == Len(text) > m + k /\ text[m + k + 1] \in {".", ","}
        j == IF dot THEN RunLen(From(text, m + k + 2), DigitChars) ELSE 0
        whole == Rat(IntOf(SubSeq(text, m + 1, m + k)), 1)
        number == IF j = 0 THEN whole
                  ELSE RatPlus(whole, Rat(IntOf(SubSeq(text, m + k + 2, m + k + 1 + j)), Pow10(j)))
    IN IF k = 0 THEN [ok |-> FALSE]
       ELSE [ok |-> TRUE,
             number |-> IF m = 1 THEN RatNeg(number) ELSE number,
             unit |-> LStrip(From(text, m + k + 1 + (IF j = 0 THEN 0 ELSE j + 1)))]

\* parse_quantity of the text menge
parse_quantity_text(menge) ==
    IF menge = NoText THEN NoParse
    ELSE LET menge_stripped == Strip(menge)
             f == fraction_match(menge_stripped)
             r == number_match(menge_stripped)
         IN IF f.ok
            THEN LET number == _convert_fraction_to_decimal(f.whole_part_str, f.fraction_char)
                 IN [ok |-> TRUE, num |-> IF f.minus_sign THEN RatNeg(number) ELSE number,
                     unit |-> f.unit]
            ELSE IF r.ok THEN [ok |-> TRUE, num |-> r.number, unit |-> r.unit]
            ELSE NoParse

\* Texts to parse, each with the way it is spelled: an optional minus, a
\* number in one of the spellings, and an optional unit after a blank.
MinusTexts == {<< >>, <<"-">>}
UnitTexts == {NoUnitText, <<"T", "L">>, <<"k", "g">>}
WithUnit(number, unit) == IF unit = NoUnitText THEN number ELSE number \o <<" ">> \o unit

AsciiInputs ==
    { [shape |-> "ascii", minus |-> s # << >>, whole |-> w, n |-> <<f[1]>>, d |-> <<f[2]>>, unit |-> u,
       text |-> WithUnit(s \o (IF w = << >> THEN << >> ELSE w \o <<" ">>)
                           \o <<f[1], "/", f[2]>>, u)] :
        s \in MinusTexts, w \in {<< >>, <<"2">>, <<"1", "0">>},
        f \in {<<"1", "2">>, <<"3", "4">>, <<"2", "3">>}, u \in UnitTexts }

DecimalInputs ==
    { [shape |-> "decimal", minus |-> s # << >>, whole |-> w, n |-> f, d |-> << >>, unit |-> u,
       text |-> WithUnit(s \o w \o f, u)] :
        s \in MinusTexts, w \in {<<"5">>, <<"2", "0">>},
        f \in {<< >>, <<",", "5">>, <<".", "2", "5">>}, u \in UnitTexts }

UnicodeInputs ==
    { [shape |-> "unicode", minus |-> s # << >>, whole |-> w, n |-> <<c>>, d |-> << >>, unit |-> u,
       text |-> WithUnit(s \o w \o <<c>>, u)] :
        s \in MinusTexts, w \in {<< >>, <<"1">>}, c \in FractionChars, u \in UnitTexts }

OtherInputs ==
    { [shape |-> "other", minus |-> FALSE, whole |-> << >>, n |-> << >>, d |-> << >>,
       unit |-> NoUnitText, text |-> t] :
        t \in {NoText, <<" ">>, <<"-">>, <<"T", "L">>, <<" ", "5", " ", "g", " ">>} }

ParseInputs == AsciiInputs \cup DecimalInputs \cup UnicodeInputs \cup OtherInputs

ParseInit ==
    /\ fn_args \in ParseInputs
    /\ fn_result = NoCall
    /\ fn_pc = "parse"

ParseCall ==
    /\ fn_pc = "parse"
    /\ fn_result' = parse_quantity_text(fn_args.text)
    /\ fn_pc' = "parsed"
    /\ UNCHANGED <<fn_args, mq_vars, sd_vars, rc_vars, lp_vars, rq_vars>>

(***************************************************************************)
(* weekplan.py: calls of _adjust_quantity_by_person_count.  The quantities *)
(* are texts of one or two terms, a text without a number, "" and None;    *)
(* the original count is 0 or None (NoCount) or 1..MaxPersons.             *)
(***************************************************************************)
MaxPersons == 4

ScaleMags == {5, 15, 25, 50, Cent, 150, 2 * Cent, 0 - Cent}
ScaleTexts ==
    { <<NumPart(n, u, IF n % Cent = 0 THEN "c" ELSE "v")>> : n \in ScaleMags, u \in Units }
    \cup { <<NumPart(5 * Cent, "g", "c"), NumPart(2 * Cent, NoUnit, "c")>>,
           <<RawPart(0, NoUnit, "text")>>, EmptyText, None }
ScaleInputs ==
    [original_menge : ScaleTexts, person_count : 1..MaxPersons,
     original_person_count : {0, NoCount} \cup 1..MaxPersons]

ScaleInit ==
    /\ fn_args \in ScaleInputs
    /\ fn_result = NoCall
    /\ fn_pc = "scale"

ScaleCall ==
    /\ fn_pc = "scale"
    /\ fn_result' = _adjust_quantity_by_person_count(fn_args.original_menge, fn_args.person_count,
                                                     fn_args.original_person_count)
    /\ fn_pc' = "scaled"
    /\ UNCHANGED <<fn_args, mq_vars, sd_vars, rc_vars, lp_vars, rq_vars>>

(***************************************************************************)
(* items.py: calls of _find_existing_item on lists of up to MaxLines       *)
(* lines.  No two lines of a list have the same lower-case name, date and  *)
(* store: the look-up that precedes every insert would have found the one. *)
(***************************************************************************)
MaxLines == 2

FinderNames == {"Moehren", "MOEHREN", "M:ohren", "Moehre", "Moehrchen", "Salz", ":Ol", ":ol"}
FinderProducts == Products \cup {[name |-> ":Ol", fresh |-> FALSE]}
FinderDates == {StartDay, StartDay + MealAhead}
FinderLines ==
    [name : FinderNames, menge : {None}, shopping_date : FinderDates,
     store_id : {FirstStore, OtherStore}]
FinderLists ==
    { its \in UNION {[1..n -> FinderLines] : n \in 0..MaxLines} :
        \A i, j \in 1..Len(its) :
            (/\ i # j
             /\ its[i].shopping_date = its[j].shopping_date
             /\ its[i].store_id = its[j].store_id) => Lower(its[i].name) # Lower(its[j].name) }
FindInputs ==
    [its : FinderLists, item_name : FinderNames, shopping_date : FinderDates,
     store_id : {FirstStore, OtherStore, NoStore}]

FindInit ==
    /\ fn_args \in FindInputs
    /\ fn_result = NoCall
    /\ fn_pc = "find"

FindCall ==
    /\ fn_pc = "find"
    /\ fn_result' = _find_existing_item(fn_args.its, fn_args.item_name, fn_args.shopping_date,
                                        fn_args.store_id)
    /\ fn_pc' = "found"
    /\ UNCHANGED <<fn_args, mq_vars, sd_vars, rc_vars, lp_vars, rq_vars>>

\* create_item as the client sees it: the list after the request, the
\* quantity of the response and the notification broadcast
create_item_reply(its, name, menge, shopping_date, store_id) ==
    LET step == create_item(name, menge, shopping_date, store_id)[1]
        i == find_by(step.finder, its, name, shopping_date, store_id)
        after == LineStepAt(its, step, i)
    IN IF i # 0
       THEN IF Len(after) < Len(its)
            THEN [its |-> after, menge |-> None, sent |-> "item:deleted"]
            ELSE [its |-> after, menge |-> after[i].menge, sent |-> "item:updated"]
       ELSE IF Skips(step, 0)
       THEN [its |-> its, menge |-> None, sent |-> "none"]
       ELSE [its |-> after, menge |-> menge, sent |-> "item:added"]

\* the quantities of the POST /items payloads: none, "1 g", "-1 g", "-1"
\* and "-1 g, -1"
AddTexts ==
    { None, Qty1(1, "g"), Qty1(0 - 1, "g"), Qty1(0 - 1, NoUnit),
      <<NumPart(0 - Cent, "g", "c"), NumPart(0 - Cent, NoUnit, "c")>> }

AddInputs ==
    [its : {l \in FinderLists : Len(l) <= 1}, item_name : {"Moehren", "Salz"}, menge : AddTexts,
     shopping_date : FinderDates, store_id : {FirstStore, OtherStore, NoStore}]

AddInit ==
    /\ fn_args \in AddInputs
    /\ fn_result = NoCall
    /\ fn_pc = "add"

AddCall ==
    /\ fn_pc = "add"
    /\ fn_result' = create_item_reply(fn_args.its, fn_args.item_name, fn_args.menge,
                                      fn_args.shopping_date, fn_args.store_id)
    /\ fn_pc' = "added"
    /\ UNCHANGED <<fn_args, mq_vars, sd_vars, rc_vars, lp_vars, rq_vars>>

\* the plan entries by entry_type and recipe_id
BindInputs ==
    [entry_type : {"text", "template", "recipe"}, recipe_id : {NoRecipe, RecipeId}]

BindInit ==
    /\ fn_args \in BindInputs
    /\ fn_result = NoCall
    /\ fn_pc = "bind"

\* the branches Create, Update and Delete take for the entry
BindCall ==
    /\ fn_pc = "bind"
    /\ fn_result' = [create |-> create_binding(fn_args), update |-> update_binding(fn_args),
                      delete |-> delete_binding(fn_args)]
    /\ fn_pc' = "bound"
    /\ UNCHANGED <<fn_args, mq_vars, sd_vars, rc_vars, lp_vars, rq_vars>>

\* the lookup of _add_or_merge_ingredient_item for a line of a recipe
FindByStrategy ==
    /\ fn_pc = "find"
    /\ fn_args.store_id # NoStore
    /\ fn_result' = _find_item_by_match_strategy(FinderProducts, fn_args.its, fn_args.item_name,
                                                 fn_args.shopping_date, fn_args.store_id)
    /\ fn_pc' = "matched"
    /\ UNCHANGED <<fn_args, mq_vars, sd_vars, rc_vars, lp_vars, rq_vars>>

(***************************************************************************)
(* weekplan.py: one plan request step by step.  The handler works in one   *)
(* SQLModel session (with get_session() as session): a line step changes   *)
(* the rows as the session holds them, session.commit() makes them the     *)
(* rows of the database, and an exception that leaves the with block       *)
(* closes the session, which rolls back what was not committed.  The rows  *)
(* are [its, ids, next]: the Item rows, their ids in the same order, and   *)
(* the id the next new row gets.  After its line steps the handler         *)
(* broadcasts one message per entry of modified_items and deleted_items.   *)
(***************************************************************************)
NoRows == [its |-> << >>, ids |-> << >>, next |-> 1]
RowsOf(its) == [its |-> its, ids |-> [k \in 1..Len(its) |-> k], next |-> Len(its) + 1]

NoPlanRequest == [op |-> "none", entry |-> FreeEntry, deltas |-> NoDeltas]

RqIdle ==
    /\ rq_request = NoPlanRequest
    /\ rq_before = NoRows
    /\ rq_db = NoRows
    /\ rq_session = NoRows
    /\ rq_plan = << >>
    /\ rq_k = 0
    /\ modified_items = << >>
    /\ deleted_items = << >>
    /\ rq_outbox = << >>
    /\ rq_sent = << >>
    /\ rq_pc = "idle"

\* what a line step does to the line i it found (0: none): "skip" it,
\* "create" a row, "merge" into the row, "delete" the row, or "keep" the row
\* because the merge is blank (the person-count add loops)
Outcome(its, step, i) ==
    LET inc == IF step.act = "sub" THEN _create_negative_quantity(step.menge) ELSE step.menge
    IN IF Skips(step, i) THEN "skip"
       ELSE IF i = 0 THEN "create"
       ELSE IF ~Blank(merge_quantities(its[i].menge, inc)) THEN "merge"
       ELSE IF step.act \in {"pc_add", "pc_add_qty"} THEN "keep"
       ELSE "delete"

\* the rows of the session after the step
RowsStep(rows, step) ==
    LET i == find_by(step.finder, rows.its, step.name, step.shopping_date, step.store_id)
        what == Outcome(rows.its, step, i)
    IN [its |-> LineStepAt(rows.its, step, i),
        ids |-> IF what = "create" THEN Append(rows.ids, rows.next)
                ELSE IF what = "delete" THEN RemoveAt(rows.ids, i)
                ELSE rows.ids,
        next |-> IF what = "create" THEN rows.next + 1 ELSE rows.next]

\* the id the step appends to modified_items (0: none): the row merged
\* into or created
ModifiedBy(rows, step) ==
    LET i == find_by(step.finder, rows.its, step.name, step.shopping_date, step.store_id)
        what == Outcome(rows.its, step, i)
    IN IF what = "merge" THEN rows.ids[i]
       ELSE IF what = "create" THEN rows.next
       ELSE 0

\* the id the step appends to the deleted_items of delete_weekplan_entry
\* (0: none): _subtract_item_quantity lists the row it deletes; the
\* handlers of an Update pass it a list they drop, and _handle_merged_items
\* and the add loops list no row they delete
DeletedBy(rows, step, op) ==
    LET i == find_by(step.finder, rows.its, step.name, step.shopping_date, step.store_id)
    IN IF op = "delete" /\ Outcome(rows.its, step, i) = "delete" THEN rows.ids[i] ELSE 0

\* the step runs session.commit()
Commits(rows, step) ==
    /\ step.commit
    /\ ~Skips(step, find_by(step.finder, rows.its, step.name, step.shopping_date, step.store_id))

\* the line steps of the handler of the request
plan_of(request) ==
    LET cat == [template |-> TRUE, recipe |-> TRUE, store |-> TRUE] IN
    CASE request.op = "create" -> create_dispatch(cat, StartDay, request.entry)
      [] request.op = "update" -> update_dispatch(cat, StartDay, request.entry, request.deltas)
      [] request.op = "delete" -> delete_dispatch(cat, StartDay, request.entry)

\* the messages the handler broadcasts after its line steps, in its order:
\* create_weekplan_entry item:added, update_weekplan_entry_deltas
\* item:updated, delete_weekplan_entry item:updated and then item:deleted
Outbox(op, modified, deleted) ==
    [k \in 1..Len(modified) |->
        [type |-> IF op = "create" THEN "item:added" ELSE "item:updated", id |-> modified[k]]]
    \o (IF op = "delete"
        THEN [k \in 1..Len(deleted) |-> [type |-> "item:deleted", id |-> deleted[k]]]
        ELSE << >>)

\* the entries of the requests: a future meal bound to the template or to
\* the recipe, with every deltas of the inputs
RqEntries ==
    { [state |-> "live", date |-> StartDay + MealAhead, meal |-> "dinner", text |-> shape.text,
       entry_type |-> shape.entry_type, recipe_id |-> shape.recipe_id, deltas |-> d] :
        shape \in EntryShapes, d \in DeltaInputs }

\* the list another entry bound to the template has put its items on
SharedList ==
    Run(<< >>, plan_of([op |-> "create",
                        entry |-> CHOOSE e \in RqEntries :
                                     e.entry_type = "template" /\ e.deltas = NoDeltas]))

\* a Create arrives at the empty or at the shared list; an Update and a
\* Delete arrive at the list the Create of their entry has left
RqInputs ==
    { [op |-> "create", entry |-> e, deltas |-> e.deltas, before |-> b] :
        e \in RqEntries, b \in {<< >>, SharedList} }
    \cup
    { [op |-> op, entry |-> e, deltas |-> e.deltas,
       before |-> Run(b, plan_of([op |-> "create", entry |-> e]))] :
        op \in {"delete"}, e \in RqEntries, b \in {<< >>, SharedList} }
    \cup
    { [op |-> "update", entry |-> e, deltas |-> d,
       before |-> Run(b, plan_of([op |-> "create", entry |-> e]))] :
        e \in RqEntries, d \in PresentDeltas, b \in {<< >>, SharedList} }

RqInit ==
    /\ \E r \in RqInputs :
        /\ rq_request = [op |-> r.op, entry |-> r.entry, deltas |-> r.deltas]
        /\ rq_before = RowsOf(r.before)
        /\ rq_db = RowsOf(r.before)
        /\ rq_session = RowsOf(r.before)
        /\ rq_plan = plan_of(r)
    /\ rq_k = 0
    /\ modified_items = << >>
    /\ deleted_items = << >>
    /\ rq_outbox = << >>
    /\ rq_sent = << >>
    /\ rq_pc = "lines"

\* one iteration of a loop of the handler over its items
RqLineStep ==
    /\ rq_pc = "lines"
    /\ rq_k < Len(rq_plan)
    /\ LET step == rq_plan[rq_k + 1]
           m == ModifiedBy(rq_session, step)
           d == DeletedBy(rq_session, step, rq_request.op)
       IN /\ rq_session' = RowsStep(rq_session, step)
          /\ rq_db' = IF Commits(rq_session, step) THEN rq_session' ELSE rq_db
          /\ modified_items' = IF m # 0 THEN Append(modified_items, m) ELSE modified_items
          /\ deleted_items' = IF d # 0 THEN Append(deleted_items, d) ELSE deleted_items
    /\ rq_k' = rq_k + 1
    /\ UNCHANGED <<rq_request, rq_before, rq_plan, rq_outbox, rq_sent, rq_pc>>
    /\ UNCHANGED <<mq_vars, sd_vars, rc_vars, lp_vars, fn_vars>>

\* the iteration raises (the database refuses the statement or the commit):
\* the exception leaves the with block, the session is closed and what it
\* had not committed is rolled back; the handler broadcasts nothing
RqLineFails ==
    /\ rq_pc = "lines"
    /\ rq_k < Len(rq_plan)
    /\ rq_session' = rq_db
    /\ rq_pc' = "failed"
    /\ UNCHANGED <<rq_request, rq_before, rq_db, rq_plan, rq_k, modified_items, deleted_items,
                   rq_outbox, rq_sent>>
    /\ UNCHANGED <<mq_vars, sd_vars, rc_vars, lp_vars, fn_vars>>

\* the line steps are through: the commit that ends the handler (Create
\* has committed all by then) and the start of the broadcast loops
RqCommit ==
    /\ rq_pc = "lines"
    /\ rq_k = Len(rq_plan)
    /\ rq_db' = rq_session
    /\ rq_outbox' = Outbox(rq_request.op, modified_items, deleted_items)
    /\ rq_pc' = "notify"
    /\ UNCHANGED <<rq_request, rq_before, rq_session, rq_plan, rq_k, modified_items,
                   deleted_items, rq_sent>>
    /\ UNCHANGED <<mq_vars, sd_vars, rc_vars, lp_vars, fn_vars>>

\* await manager.broadcast(...) of the next message
RqBroadcast ==
    /\ rq_pc = "notify"
    /\ rq_outbox # << >>
    /\ rq_sent' = Append(rq_sent, Head(rq_outbox))
    /\ rq_outbox' = Tail(rq_outbox)
    /\ UNCHANGED <<rq_request, rq_before, rq_db, rq_session, rq_plan, rq_k, modified_items,
                   deleted_items, rq_pc>>
    /\ UNCHANGED <<mq_vars, sd_vars, rc_vars, lp_vars, fn_vars>>

\* the handler returns its response
RqReturn ==
    /\ rq_pc = "notify"
    /\ rq_outbox = << >>
    /\ rq_pc' = "done"
    /\ UNCHANGED <<rq_request, rq_before, rq_db, rq_session, rq_plan, rq_k, modified_items,
                   deleted_items, rq_outbox, rq_sent>>
    /\ UNCHANGED <<mq_vars, sd_vars, rc_vars, lp_vars, fn_vars>>

(***************************************************************************)
(* Specifications                                                          *)
(***************************************************************************)
MergeInit == (MqInitRoundTrip \/ MqInitSequence \/ MqInitOrders \/ MqInitTexts) /\ SdIdle /\ RcIdle /\ LpIdle /\ FnIdle /\ RqIdle
MergeStep == MergeX \/ RetractX \/ MergeNext \/ MergeOrders \/ MergeText
SpecMerge == MergeInit /\ [][MergeStep]_vars

SchedInit == SdInit /\ MqIdle /\ RcIdle /\ LpIdle /\ FnIdle /\ RqIdle
SchedStep == Schedule \/ ScheduleLater
SpecSched == SchedInit /\ [][SchedStep]_vars

LoopInit == LpInit /\ MqIdle /\ SdIdle /\ RcIdle /\ FnIdle /\ RqIdle
SpecLoop == LoopInit /\ [][LoopStep]_vars

CmInitAll == CmInit /\ MqIdle /\ SdIdle /\ RcIdle /\ FnIdle /\ RqIdle
SpecCm == CmInitAll /\ [][CmStep]_vars

FnInit == (ParseInit \/ ScaleInit \/ FindInit \/ BindInit \/ AddInit) /\ MqIdle /\ SdIdle /\ RcIdle /\ LpIdle /\ RqIdle
FnStep == ParseCall \/ ScaleCall \/ FindCall \/ FindByStrategy \/ BindCall \/ AddCall
SpecFn == FnInit /\ [][FnStep]_vars

\* one plan request, step by step, with and without a failing line step
RequestInit == RqInit /\ MqIdle /\ SdIdle /\ RcIdle /\ LpIdle /\ FnIdle
RequestStep == RqLineStep \/ RqLineFails \/ RqCommit \/ RqBroadcast \/ RqReturn
SpecRequest == RequestInit /\ [][RequestStep]_vars

\* the same under the scheduling of the event loop: a handler that can go
\* on does go on (its awaits return); whether a line step raises is left
\* open; the requests are the Creates, the Deletes and the Updates of an
\* entry stored without deltas
RequestLiveInit ==
    /\ RequestInit
    /\ (rq_request.op # "update" \/ ~rq_request.entry.deltas.present)
SpecRequestLive ==
    /\ RequestLiveInit /\ [][RequestStep]_vars
    /\ WF_vars(RqLineStep) /\ WF_vars(RqCommit) /\ WF_vars(RqBroadcast) /\ WF_vars(RqReturn)

\* the reconciler under the requests of its clients
Init == RcIdle /\ MqIdle /\ SdIdle /\ LpIdle /\ FnIdle /\ RqIdle
Next ==
    \/ CreateEntry
    \/ UpdateDeltas
    \/ DeleteEntry
    \/ CreateItem
    \/ DeleteTemplate
    \/ DeleteRecipe
    \/ DeleteStore
Spec == Init /\ [][Next]_vars

(***************************************************************************)
(* Properties of the binding reconciler (specification Spec)               *)
(***************************************************************************)
EntryOps == {"create", "update", "delete", "create_delete"}
Intact(cat) == cat.template /\ cat.recipe /\ cat.store

\* what Create contributes from scratch for the entry as it is stored now
Expected(entry) == Qty(Run(<< >>, create_dispatch(catalog, clock, entry)))

\* C1: after any sequence of Create, Update and Delete on entries with
\* future meal dates, the net quantity every existing entry has put on the
\* shopping list equals, item by item, what Create would contribute from
\* scratch with the deltas the entry stores now.
C1_LifecycleInvariant ==
    pure => \A id \in 1..MaxEntries :
                weekplan[id].state = "live" => led[id] = Expected(weekplan[id])

\* C2: for an entry with a future meal date bound to an existing template
\* or recipe, Create immediately followed by Delete leaves the shopping
\* list as it was before Create: every line as before, no new line.
C2_CreateDeleteRestores ==
    (last.op = "create_delete" /\ last.entry.date >= clock /\ Intact(last.cat))
        => items = last.before

\* the contribution of the template items of entry e under the deltas d
Scaled(e, d) ==
    Qty(Run(<< >>, Steps(TemplateTodo(DeltaRemoved(d), DeltaCount(d)), "fuzzy", "add",
                         clock, e.date, e.meal)))

OnlyCount(old, new) ==
    /\ DeltaRemoved(old) = new.removed_items
    /\ DeltaAdded(old) = new.added_items
    /\ DeltaCount(old) # new.person_count

\* C3: an Update that changes only person_count of a template-bound entry
\* changes the quantity on the list by exactly the new-scaled contribution
\* minus the old-scaled contribution of every included item; what other
\* sources put on the same lines stays.
C3_PersonCountRescale ==
    (/\ last.op = "update"
     /\ last.entry.entry_type = "template" /\ last.entry.recipe_id = NoRecipe
     /\ last.entry.date >= clock /\ Intact(last.cat)
     /\ OnlyCount(last.entry.deltas, weekplan[last.id].deltas))
        => Qty(items) = QtyPlus(QtyMinus(Qty(last.before), Scaled(last.entry, last.entry.deltas)),
                                Scaled(last.entry, weekplan[last.id].deltas))

\* C6: no Create, Update or Delete of an entry whose meal date is before
\* today creates, modifies or deletes a shopping-list line.
C6_PastEntriesUntouched ==
    (last.op \in EntryOps /\ last.entry.date < clock) => items = last.before

\* C7: when every binding the entry names is gone, or no store exists,
\* Create, Update and Delete leave the shopping list unchanged, and Delete
\* still removes the entry.
C7_MissingBindingNoOp ==
    (last.op \in EntryOps /\ (BindingGone(last.entry, last.cat) \/ ~last.cat.store))
        => /\ items = last.before
           /\ last.op \in {"delete", "create_delete"} => weekplan[last.id].state = "gone"

\* C7 happens: an entry that put lines on the list is deleted after its
\* template was deleted
C7_Witness ==
    /\ last.op = "delete"
    /\ last.entry.text = TemplateName /\ ~last.cat.template /\ last.cat.store
    /\ last.entry.date >= clock
    /\ items # << >>
    /\ weekplan[last.id].state = "gone"

\* C15: in every reconciler path, a name that exists verbatim in the
\* catalog of the store selects only a line whose name is equal to it
\* (case-insensitively) for a merge or a retraction.
C15_CatalogNamesExactOnly ==
    last.op \in EntryOps =>
        \A p \in sel : _find_exact_product_match(Products, p.name)
                          => Lower(p.line.name) = Lower(p.name)

\* C16: create-or-merge never merges into, and retraction never subtracts
\* from, a line with another shopping_date or another store than the one
\* asked for.
C16_SameDateAndStore ==
    last.op \in EntryOps \cup {"item"} =>
        \A p \in sel : /\ p.line.shopping_date = p.shopping_date
                        /\ p.line.store_id = p.store_id

\* the names of the items of the binding of entry
BindingNames(entry) ==
    IF entry.recipe_id # NoRecipe
    THEN {_parse_ingredient_line(RecipeLines[k]).name : k \in DOMAIN RecipeLines}
    ELSE {TemplateItems[k].name : k \in DOMAIN TemplateItems}

\* the entry was created on the empty list with every binding in place
CreatedAlone ==
    /\ last.op = "create" /\ last.before = << >>
    /\ last.cat.template /\ last.cat.recipe /\ last.cat.store
    /\ last.entry.date >= clock

\* C17: on Create, a binding item is left out of the contribution exactly
\* when its name equals a removed name after the parentheses are stripped
\* from both; every other binding item is contributed.
C17_RemovedNamesExcluded ==
    (CreatedAlone /\ DeltaAdded(last.entry.deltas) = << >>) =>
        \A b \in BindingNames(last.entry) :
            (\E i \in DOMAIN items : items[i].name = b)
                <=> ~(\E r \in DeltaRemoved(last.entry.deltas) : StripParens(r) = StripParens(b))

\* what Create contributes for the binding items in names, scaled to
\* person_count, per identity, shopping date and unit
ItemContribution(entry, names, person_count) ==
    Qty(Run(<< >>, Steps(IF entry.recipe_id # NoRecipe
                         THEN RecipeTodo(RecipeNames \ names, person_count)
                         ELSE TemplateTodo(TemplateNames \ names, person_count),
                         "fuzzy", "add", clock, entry.date, entry.meal)))

\* an Update of the removed names alone, every removed name being the name
\* of a binding item
RemovedNamesUpdate ==
    /\ last.op = "update"
    /\ ~BindingGone(last.entry, last.cat) /\ last.cat.store
    /\ weekplan[last.id].deltas.person_count = DeltaCount(last.entry.deltas)
    /\ weekplan[last.id].deltas.added_items = DeltaAdded(last.entry.deltas)
    /\ DeltaRemoved(last.entry.deltas) \cup weekplan[last.id].deltas.removed_items
          \subseteq BindingNames(last.entry)

Min(a, b) == IF a <= b THEN a ELSE b
Max(a, b) == IF a >= b THEN a ELSE b

\* what the line selected for the retraction holds under key
HeldBySelected(key) ==
    IF sel = {} THEN 0
    ELSE LET p == CHOOSE q \in sel : TRUE
         IN IF Ident(p.line.name) = key[1] /\ p.line.shopping_date = key[2]
            THEN Amount(p.line.menge, key[3]) ELSE 0

BareNames == {_parse_ingredient_line(RecipeLines[k]).name :
                 k \in {j \in DOMAIN RecipeLines : ~Truthy(RecipeLines[j].menge)}}

\* the lines of its for the ingredient name of the entry of the last request
LinesOf(its, name) ==
    {i \in DOMAIN its :
        /\ Ident(its[i].name) = name
        /\ its[i].shopping_date = shopping_date_of(clock, last.entry.date, name, last.entry.meal)}

\* the last request served a recipe-bound entry with its bindings in place
RecipeServed ==
    /\ last.entry.entry_type = "recipe" /\ last.entry.recipe_id = RecipeId
    /\ last.cat.recipe /\ last.cat.store
    /\ last.entry.date >= clock

\* C19: an ingredient line without quantity token contributes "1" on
\* Create, never an absent quantity, and Delete retracts "1" for it: a line
\* that is on the list only because of that ingredient is gone after Delete.
C19_BareIngredientCountsOne ==
    \A name \in BareNames :
        (RecipeServed /\ LinesOf(last.before, name) = {}
                      /\ name \notin AddedNames(DeltaAdded(last.entry.deltas))) =>
            /\ last.op = "create" =>
                  \E i \in LinesOf(items, name) : items[i].menge = <<NumPart(Cent, NoUnit, "c")>>
            /\ last.op = "create_delete" => LinesOf(items, name) = {}

\* C19 happens: a recipe entry was created on a list without a line for
\* its bare ingredient and deleted again, and no such line is left
C19_Witness ==
    /\ last.op = "create_delete" /\ RecipeServed
    /\ weekplan[last.id].state = "gone"
    /\ \A name \in BareNames : LinesOf(last.before, name) = {} /\ LinesOf(items, name) = {}
    /\ BareNames # {}

\* an Update of person_count and of the removed names together, every
\* removed name being the name of a binding item
CountAndNamesUpdate ==
    /\ last.op = "update"
    /\ ~BindingGone(last.entry, last.cat) /\ last.cat.store
    /\ weekplan[last.id].deltas.person_count # DeltaCount(last.entry.deltas)
    /\ weekplan[last.id].deltas.removed_items # DeltaRemoved(last.entry.deltas)
    /\ weekplan[last.id].deltas.added_items = DeltaAdded(last.entry.deltas)
    /\ DeltaRemoved(last.entry.deltas) \cup weekplan[last.id].deltas.removed_items
          \subseteq BindingNames(last.entry)

\* C22: an Update that changes person_count and the removed names
\* retracts the old contribution of every binding item at most once and
\* adds its new contribution at most once: the list afterwards holds what
\* it held, less the old-scaled contribution of the items included before,
\* plus the new-scaled contribution of the items included now.
C22_EachContributionOnce ==
    (CountAndNamesUpdate /\ weekplan[last.id].deltas.person_count # NoCount) =>
        LET new == weekplan[last.id].deltas
            was == ItemContribution(last.entry,
                                    BindingNames(last.entry) \ DeltaRemoved(last.entry.deltas),
                                    DeltaCount(last.entry.deltas))
            now == ItemContribution(last.entry,
                                    BindingNames(last.entry) \ new.removed_items,
                                    new.person_count)
        IN \A key \in Keys :
              /\ Qty(items)[key] <= Qty(last.before)[key] + now[key]
              /\ Qty(items)[key] >= Qty(last.before)[key] - was[key]

\* C23: an Update that takes the person_count override n away retracts
\* the n-scaled contribution of every included binding item and adds its
\* base quantity: the list afterwards holds what it held, less the
\* n-scaled contributions (as far as held), plus the base quantities.
C23_CountDroppedRestoresBase ==
    (/\ last.op = "update"
     /\ ~BindingGone(last.entry, last.cat) /\ last.cat.store
     /\ DeltaCount(last.entry.deltas) # NoCount
     /\ weekplan[last.id].deltas.person_count = NoCount
     /\ weekplan[last.id].deltas.removed_items = DeltaRemoved(last.entry.deltas)
     /\ weekplan[last.id].deltas.added_items = DeltaAdded(last.entry.deltas)
     /\ DeltaRemoved(last.entry.deltas) \subseteq BindingNames(last.entry)) =>
        LET included == BindingNames(last.entry) \ DeltaRemoved(last.entry.deltas)
            scaled == ItemContribution(last.entry, included, DeltaCount(last.entry.deltas))
            base == ItemContribution(last.entry, included, NoCount)
        IN \A key \in Keys :
              Qty(items)[key] = Max(0, Qty(last.before)[key] - scaled[key]) + base[key]

\* an Update of the added items alone
AddedItemsUpdate ==
    /\ last.op = "update"
    /\ ~BindingGone(last.entry, last.cat) /\ last.cat.store
    /\ weekplan[last.id].deltas.person_count = DeltaCount(last.entry.deltas)
    /\ weekplan[last.id].deltas.removed_items = DeltaRemoved(last.entry.deltas)

\* the ad-hoc items of the list ours whose names are not in the list theirs
OnlyIn(ours, theirs) == AddedOf(ours, AddedNames(ours) \ AddedNames(theirs))

AddedContribution(entry, added_items) ==
    Qty(Run(<< >>, Steps(added_items, "fuzzy", "add", clock, entry.date, entry.meal)))

\* what the line selected for the retraction of one of names holds under key
HeldFor(key, names) ==
    LET picks == {p \in sel : /\ p.name \in names
                              /\ Ident(p.line.name) = key[1]
                              /\ p.line.shopping_date = key[2]}
    IN IF picks = {} THEN 0
       ELSE Amount((CHOOSE p \in picks : TRUE).line.menge, key[3])

\* identity and shopping date of the lines of its
LineNames(its) == {<<Ident(its[i].name), its[i].shopping_date>> : i \in DOMAIN its}

\* C24: an Update diffs added_items by name: an ad-hoc item whose name is
\* in the old deltas only is retracted with its old quantity, one whose
\* name is in the new deltas only is added with its new quantity, and the
\* lines of ad-hoc items whose names are in both are left as they are;
\* after a Create and one such Update no line is left for a retracted
\* ad-hoc item unless the entry still contributes to that line.
C24_AddedItemsDiff ==
    AddedItemsUpdate =>
        LET old == DeltaAdded(last.entry.deltas)
            new == weekplan[last.id].deltas.added_items
            gone == AddedContribution(last.entry, OnlyIn(old, new))
            come == AddedContribution(last.entry, OnlyIn(new, old))
        IN /\ \A key \in Keys :
                 Qty(items)[key] = Qty(last.before)[key] + come[key]
                                     - Min(gone[key], HeldFor(key, AddedNames(OnlyIn(old, new))))
           /\ AddedNames(old) = AddedNames(new) => items = last.before
           /\ (steps = 2 /\ last.entry.date >= clock) =>
                 LineNames(items) \cap LineNames(Run(<< >>, Steps(OnlyIn(old, new), "fuzzy", "add",
                                                                   clock, last.entry.date, last.entry.meal)))
                    \subseteq LineNames(Run(<< >>, create_dispatch(catalog, clock, weekplan[last.id])))

\* the line kept its place and identity and no term of it got smaller
KeptNotLess(old, new) ==
    /\ new.name = old.name
    /\ new.shopping_date = old.shopping_date
    /\ new.store_id = old.store_id
    /\ \A u \in Units : Amount(new.menge, u) >= Amount(old.menge, u)

\* C32: a create-or-merge with an absent, zero or positive incoming
\* quantity (a manual add, the Create of a plan entry) never deletes a line
\* of the list and never reduces a term of its quantity; in particular an
\* item without quantity added to a line without quantity keeps the line.
C32_AddNeverRemoves ==
    last.op \in {"item", "create"} =>
        /\ Len(items) >= Len(last.before)
        /\ \A i \in 1..Len(last.before) : KeptNotLess(last.before[i], items[i])

(***************************************************************************)
(* Properties of overlapping requests (specification SpecLoop)             *)
(***************************************************************************)
\* the handler has run its body: its change of the list is committed
Past(t) == lp_tasks[t].pc \notin {"new", "body", "not_found"}

\* grams on the shared line after the committed merges and retractions
AppliedAmount ==
    BaseAmount
    + AddAmount * Cardinality({t \in DOMAIN lp_tasks : lp_tasks[t].kind = "item" /\ Past(t)})
    - (TemplateItems[1].menge[1].num \div Cent)
        * Cardinality({t \in DOMAIN lp_tasks : lp_tasks[t].kind = "delete" /\ Past(t)})

AppliedList == NewItem(<< >>, "Moehren", Qty1(AppliedAmount, "g"), LoopDate, FirstStore)

\* C14: merges and retractions on one line are serialized: every request
\* that has run takes effect on the line, in every interleaving; two
\* overlapping requests that each merge +300 g into the line holding 500 g
\* leave 1100 g.
C14_MergesSerialized ==
    lp_tasks # << >> => lp_items = AppliedList

\* C14 happens: two POST /items requests overlap (both are suspended in
\* their broadcast) and the line holds both additions
C14_Witness ==
    /\ lp_tasks # << >>
    /\ \A t \in DOMAIN lp_tasks : lp_tasks[t].kind = "item" /\ lp_tasks[t].pc = "send"
    /\ lp_items = NewItem(<< >>, "Moehren", Qty1(BaseAmount + MaxTasks * AddAmount, "g"),
                          LoopDate, FirstStore)

\* C20: a notification that fails to send to one connection does not undo
\* the quantity change already applied, does not prevent the remaining
\* steps of the operation (Delete removes the plan entry), and does not
\* stop the notification from being sent to the other connections.
C20_NotifyFailureContained ==
    \A t \in DOMAIN lp_tasks :
        lp_tasks[t].disconnected # {} =>
            /\ lp_items = AppliedList
            /\ lp_tasks[t].pc # "error"
            /\ lp_tasks[t].pc = "done" =>
                  /\ lp_tasks[t].kind = "delete" => lp_entry = "gone"
                  /\ lp_tasks[t].delivered = lp_tasks[t].planned \ lp_broken

\* Delete requests of the one plan entry that have run their retraction
Retractions == {t \in DOMAIN lp_tasks : lp_tasks[t].kind = "delete" /\ Past(t)}

\* C33: two overlapping Delete requests for the same plan entry, the second
\* starting while the first is suspended in a notification send and has
\* not yet removed the entry row, retract the contribution of the entry
\* from the list exactly once.
C33_RetractedOnce ==
    Cardinality(Retractions) <= 1

(***************************************************************************)
(* Properties of the ConnectionManager (specification SpecCm)              *)
(***************************************************************************)
\* C36: a broadcast that is suspended while sending to one connection
\* completes without error and reaches every connection registered at its
\* start that is still connected, even if another user's connection is
\* registered (connect) or unregistered (disconnect) while it is suspended.
\* (No send fails here, so no clean-up of another call interferes, and the
\* user the broadcast sent to last is still registered.)
C36_BroadcastCompletes ==
    lp_broken = {} =>
        \A t \in DOMAIN lp_tasks :
            lp_tasks[t].kind = "broadcast" /\ lp_tasks[t].user \in DOMAIN lp_active =>
                /\ lp_tasks[t].pc # "error"
                /\ lp_tasks[t].pc = "done" =>
                      lp_tasks[t].planned \cap AllConns(lp_active) \subseteq lp_tasks[t].delivered

\* get_active_user_count
get_active_user_count == Cardinality(DOMAIN lp_active)

\* C38: after any sequence of connect, disconnect, broadcast and
\* send_to_user calls every user id present in active_connections maps to a
\* non-empty set of connections, so get_active_user_count equals the number
\* of users with at least one registered connection.
C38_NoEmptyUser ==
    /\ \A u \in DOMAIN lp_active : lp_active[u] # {}
    /\ get_active_user_count = Cardinality({u \in DOMAIN lp_active : lp_active[u] # {}})

\* C38 happens: the last connection of a user was dropped after a failed
\* send and the user is gone from active_connections
C38_Witness ==
    \E t \in DOMAIN lp_tasks :
        /\ lp_tasks[t].pc = "done"
        /\ \E d \in lp_tasks[t].disconnected : d[2] \notin DOMAIN lp_active

(***************************************************************************)
(* Properties of the purchase-date scheduler (specification SpecSched)     *)
(***************************************************************************)

Cutoff == IF sd_meal = "dinner" THEN sd_weekplan_date ELSE sd_weekplan_date - 1

\* the next occurrence of the weekday day on or after today
NextOn(day) == CHOOSE d \in sd_today..(sd_today + WeekLen - 1) : weekday(d) = day

ClampedMain ==
    IF NextOn(sd_main_day) > Cutoff THEN sd_today ELSE NextOn(sd_main_day)

ClampedFresh ==
    IF NextOn(sd_fresh_day) = sd_weekplan_date /\ sd_meal # "dinner" /\ sd_today < sd_weekplan_date
    THEN sd_today
    ELSE IF NextOn(sd_fresh_day) > Cutoff THEN ClampedMain
    ELSE NextOn(sd_fresh_day)

C31_SameDateLater ==
    sd_pc = "later" => sd_later_date = sd_shopping_date

(***************************************************************************)
(* Properties of the quantity algebra (specification SpecMerge)            *)
(***************************************************************************)
\* C8: for every valid expression Q and every single term X, merging X
\* and then the negation of X gives back the terms of Q.
C8_RoundTrip ==
    mq_pc = "retracted" => Terms(retracted_menge) = Terms(existing_menge)

\* C8 as the code keeps it: for every valid expression Q and every single
\* term X of magnitude >= 0, merging X and then the negation of X gives
\* back the terms of Q.
C8_RoundTripNonNegative ==
    (mq_pc = "retracted" /\ new_menge[1].num >= 0)
        => Terms(retracted_menge) = Terms(existing_menge)

\* C8 happens: X was added to a term of its unit in a two-term Q and retracted
C8_Witness ==
    /\ mq_pc = "retracted"
    /\ Len(existing_menge) > 1
    /\ new_menge[1].num > 0
    /\ \E i \in 1..Len(existing_menge) : existing_menge[i].unit = new_menge[1].unit
    /\ Terms(merged_menge) # Terms(existing_menge)
    /\ Terms(retracted_menge) = Terms(existing_menge)

\* C9: merging a term of magnitude zero into a valid expression Q leaves
\* the terms of Q and adds no term of magnitude zero.
C9_ZeroTermNoOp ==
    (mq_pc = "merged" /\ new_menge[1].num = 0) =>
        /\ Terms(merged_menge) = Terms(existing_menge)
        /\ \A i \in 1..Len(merged_menge) : merged_menge[i].num # 0

\* C11: retracting at least as much as exists is no error: for a term of
\* magnitude m and unit u of Q and an incoming term -k u with k >= m, merge
\* drops that term and returns none when no term remains; merge never
\* yields a zero or negative term; merge(none, negative term) is none.
C11_RetractClamps ==
    (mq_pc = "merged" /\ new_menge[1].num < 0) =>
        /\ \A i \in 1..Len(merged_menge) : merged_menge[i].num > 0
        /\ existing_menge = None => merged_menge = None
        /\ \A i \in 1..Len(existing_menge) :
              (existing_menge[i].unit = new_menge[1].unit
               /\ existing_menge[i].num + new_menge[1].num <= 0)
                 => Terms(merged_menge) = Terms(RemoveAt(existing_menge, i))

\* C11 happens: more than a two-term Q holds of a unit is retracted and the
\* other term stays
C11_Witness ==
    /\ mq_pc = "merged"
    /\ Len(existing_menge) = 2
    /\ \E i \in 1..2 : /\ existing_menge[i].unit = new_menge[1].unit
                       /\ existing_menge[i].num + new_menge[1].num < 0
    /\ Len(merged_menge) = 1

TermSet(menge) == {Terms(menge)[i] : i \in 1..Len(menge)}
SameTerms(a, b) == Len(a) = Len(b) /\ TermSet(a) = TermSet(b)

\* two positive single terms with different units
DisjointAdds(ops) ==
    /\ Len(ops) = 2
    /\ ops[1][1].num > 0 /\ ops[2][1].num > 0
    /\ ops[1][1].unit # ops[2][1].unit

\* C12: for every expression Q and positive terms A and B with different
\* units, merging A then B and merging B then A yield the same final
\* expression (the same ordered list of terms).
C12_AddOrderSameExpression ==
    (mq_pc = "ordered" /\ DisjointAdds(mq_ops))
        => \A a, b \in mq_outcomes : Terms(a) = Terms(b)

\* C12 as the code keeps it: both orders yield the same terms (the same
\* magnitude for every unit); the order of the terms in the list can differ.
C12_AddOrderSameTerms ==
    (mq_pc = "ordered" /\ DisjointAdds(mq_ops))
        => \A a, b \in mq_outcomes : SameTerms(a, b)

\* C12 happens: A meets a term of its unit in Q, B does not, and the two
\* orders yield the same terms
C12_Witness ==
    /\ mq_pc = "ordered" /\ DisjointAdds(mq_ops)
    /\ Len(existing_menge) = 1
    /\ existing_menge[1].unit = mq_ops[1][1].unit
    /\ \E a \in mq_outcomes :
          /\ Len(a) = 2
          /\ a[1].num = existing_menge[1].num + mq_ops[1][1].num
          /\ Terms(a)[2] = Terms(mq_ops[2])[1]

\* the numbers of the negative terms of unit u among ops, summed
RECURSIVE Retracted(_, _)
Retracted(ops, u) ==
    IF ops = << >> THEN 0
    ELSE Retracted(Tail(ops), u)
         + (IF Head(ops)[1].unit = u /\ Head(ops)[1].num < 0 THEN Head(ops)[1].num ELSE 0)

\* what the expression holds of unit u
Held(menge, u) ==
    IF \E i \in 1..Len(menge) : menge[i].unit = u
    THEN menge[CHOOSE i \in 1..Len(menge) : menge[i].unit = u].num
    ELSE 0

NonZeroOps(ops) == \A k \in 1..Len(ops) : ops[k][1].num # 0

\* C13: the same additions and retractions applied to one line yield the
\* same final expression (the same terms) whatever the order.
C13_OrderIndependent ==
    (mq_pc = "ordered" /\ NonZeroOps(mq_ops))
        => \A a, b \in mq_outcomes : SameTerms(a, b)

\* C13 as the code keeps it: the order does not matter as long as, for
\* every unit, the retractions together do not exceed what the line holds
\* of that unit before the operations; the order of the terms can differ.
C13_OrderIndependentUnclamped ==
    (/\ mq_pc = "ordered" /\ NonZeroOps(mq_ops)
     /\ \A u \in Units : Held(existing_menge, u) + Retracted(mq_ops, u) >= 0)
        => \A a, b \in mq_outcomes : SameTerms(a, b)

\* C13 happens: three operations with an addition and a retraction of the
\* unit the line holds, and every order ends with the same changed terms
C13_Witness ==
    /\ mq_pc = "ordered" /\ NonZeroOps(mq_ops)
    /\ Len(mq_ops) = 3
    /\ Len(existing_menge) = 1
    /\ Held(existing_menge, existing_menge[1].unit) + Retracted(mq_ops, existing_menge[1].unit) >= 0
    /\ \E j, k \in 1..3 : /\ mq_ops[j][1].unit = existing_menge[1].unit /\ mq_ops[j][1].num < 0
                          /\ mq_ops[k][1].unit = existing_menge[1].unit /\ mq_ops[k][1].num > 0
    /\ \A a, b \in mq_outcomes : SameTerms(a, b)
    /\ \A a \in mq_outcomes : ~SameTerms(a, existing_menge)

\* C10: every expression merge returns, starting from none, has pairwise
\* distinct units and only terms of magnitude > 0.
C10_MergeClosed ==
    mq_pc = "seq" => ValidExpr(existing_menge)

\* one incoming term applied to the terms of an expression: a term with
\* the same unit has the magnitudes added and is dropped when the sum is
\* <= 0; without such a term a positive term is appended and any other
\* term is discarded
TermRule(terms, t) ==
    LET hits == {i \in 1..Len(terms) : terms[i].unit = t.unit}
    IN IF hits # {}
       THEN LET i == CHOOSE j \in hits : \A k \in hits : j <= k
            IN IF terms[i].num + t.num <= 0 THEN RemoveAt(terms, i)
               ELSE [terms EXCEPT ![i].num = @ + t.num]
       ELSE IF t.num > 0 THEN Append(terms, t) ELSE terms

RECURSIVE TermsRule(_, _)
TermsRule(terms, incoming) ==
    IF incoming = << >> THEN terms
    ELSE TermsRule(TermRule(terms, Head(incoming)), Tail(incoming))

\* the per-term rule on an expression and an incoming text
MergeRule(existing, new) ==
    IF existing = None /\ \E i \in 1..Len(new) : new[i].num < 0 THEN None
    ELSE TermsRule(Terms(existing), Terms(new))

\* C26: for every expression (or none) and every incoming text of one or
\* more terms, merge_quantities returns the terms of the per-term rule:
\* none when nothing is stored and an incoming term is negative; else per
\* term the sum under the matching unit (dropped when <= 0), a new term
\* for an unmatched positive one, nothing for an unmatched negative one;
\* none when no term remains.  (Incoming terms of magnitude zero are left
\* to C9.)
C26_MergeFollowsTermRule ==
    (mq_pc = "text_merged" /\ \A i \in 1..Len(new_menge) : new_menge[i].num # 0) =>
        Terms(merged_menge) = MergeRule(existing_menge, new_menge)

(***************************************************************************)
(* Properties of the pure functions (specification SpecFn)                 *)
(***************************************************************************)
\* the number the spelling of the arguments denotes
Spelled(a) ==
    LET body == CASE a.shape = "ascii" ->
                       RatPlus(Rat(IntOf(a.whole), 1), Rat(IntOf(a.n), IntOf(a.d)))
                  [] a.shape = "decimal" ->
                       IF a.n = << >> THEN Rat(IntOf(a.whole), 1)
                       ELSE RatPlus(Rat(IntOf(a.whole), 1),
                                    Rat(IntOf(Tail(a.n)), Pow10(Len(a.n) - 1)))
                  [] a.shape = "unicode" ->
                       RatPlus(Rat(IntOf(a.whole), 1), fractions_map(a.n[1]))
    IN IF a.minus THEN RatNeg(body) ELSE body

\* C21: parse accepts ASCII fractions: for the text "n/d unit" it returns
\* the magnitude n/d, for "whole n/d unit" the magnitude whole + n/d, each
\* negated by a leading minus, and the trimmed remainder as the unit.
C21_AsciiFractions ==
    (fn_pc = "parsed" /\ fn_args.shape = "ascii") =>
        fn_result = [ok |-> TRUE, num |-> Spelled(fn_args), unit |-> fn_args.unit]

\* the decimal and the unicode spellings are parsed to the number spelled
ParsedAsSpelled ==
    (fn_pc = "parsed" /\ fn_args.shape \in {"decimal", "unicode"}) =>
        fn_result = [ok |-> TRUE, num |-> Spelled(fn_args), unit |-> fn_args.unit]

\* the call has a quantity with a number and a positive original count
Scalable ==
    /\ fn_pc = "scaled"
    /\ parse_quantity(fn_args.original_menge).ok
    /\ fn_args.original_person_count > 0

\* C29: scaling to a person count returns base * target / base_count
\* exactly, with the unit unchanged, for every base quantity that has a
\* number and every positive base count; with a zero or absent base count
\* or an absent or numberless quantity the original quantity is returned.
C29_ScalingExact ==
    /\ Scalable =>
          /\ parse_quantity(fn_result).ok
          /\ parse_quantity(fn_result).num * fn_args.original_person_count
                = parse_quantity(fn_args.original_menge).num * fn_args.person_count
          /\ parse_quantity(fn_result).unit = parse_quantity(fn_args.original_menge).unit
          /\ parse_quantity(fn_result).rest = parse_quantity(fn_args.original_menge).rest
    /\ (fn_pc = "scaled" /\ ~Scalable) => fn_result = fn_args.original_menge

\* the lines of the call on the requested date and in the requested store
Asked == Cands(fn_args.its, fn_args.shopping_date, fn_args.store_id)

\* similarity of the line i and the name asked for
RatioOf(i) == Ratio(normalize_name(fn_args.item_name), normalize_name(fn_args.its[i].name))

\* the lines asked whose normalized name is that of the name asked for
SameName == {i \in Asked : normalize_name(fn_args.its[i].name) = normalize_name(fn_args.item_name)}

\* the lines asked that reach the threshold
Similar == {i \in Asked : RatioOf(i) >= FuzzyThreshold}

\* C30: _find_existing_item returns a line whose normalized name equals
\* the query without regard to case whenever the requested date and store
\* have one, whatever similar lines there are; otherwise it returns the
\* line of the highest similarity among those of at least 0.8, and none
\* when no line reaches 0.8.
C30_ExactBeforeFuzzy ==
    fn_pc = "found" =>
        IF SameName # {} THEN fn_result \in SameName
        ELSE IF Similar = {} THEN fn_result = 0
        ELSE fn_result \in Similar /\ \A j \in Similar : RatioOf(fn_result) >= RatioOf(j)

\* a call that returns the line of the name asked for, spelled with an
\* umlaut where the query has the digraph, from behind a similar line
C30_Witness ==
    /\ fn_pc = "found"
    /\ fn_result \in SameName
    /\ Lower(fn_args.its[fn_result].name) # Lower(fn_args.item_name)
    /\ \E j \in Similar \ SameName : j < fn_result

\* the lines of the store and shopping date asked whose name equals the
\* name asked for when case is ignored
SameIgnoringCase ==
    {i \in 1..Len(fn_args.its) :
        /\ fn_args.its[i].store_id = fn_args.store_id
        /\ fn_args.its[i].shopping_date = fn_args.shopping_date
        /\ Lower(fn_args.its[i].name) = Lower(fn_args.item_name)}

\* C34: no two lines of the same store and shopping date have names that
\* are equal ignoring case: on a list without such lines, a manual add or
\* a plan request creates a new line (its lookup finds none) only when no
\* line of that store and date has the name, case ignored.
C34_NewLineOnlyWhenNone ==
    (fn_pc \in {"found", "matched"} /\ fn_result = 0) => SameIgnoringCase = {}

\* C35: Create, Update and Delete of the same plan entry resolve it to the
\* same kind of binding (recipe or template) for every combination of
\* entry_type and recipe_id, entry_type "template" with a recipe_id
\* included.
C35_SameBinding ==
    fn_pc = "bound" =>
        /\ fn_result.update = fn_result.create
        /\ fn_result.delete = fn_result.create

\* the quantity of the payload is negative: it has terms and each is a
\* number below zero
NegativeAdd ==
    /\ Truthy(fn_args.menge)
    /\ \A k \in 1..Len(fn_args.menge) :
           fn_args.menge[k].kind = "num" /\ fn_args.menge[k].num < 0

\* the name of the payload matches no line of its date and store
NoLineMatches ==
    _find_existing_item(fn_args.its, fn_args.item_name, fn_args.shopping_date,
                        fn_args.store_id) = 0

C27_EachItemPersistedAlone ==
    rq_pc = "failed" => rq_db.its = Run(rq_before.its, SubSeq(rq_plan, 1, rq_k))

\* the quantity text of the row id
MengeOf(rows, id) ==
    LET k == CHOOSE k \in 1..Len(rows.ids) : rows.ids[k] = id IN rows.its[k].menge

IdsOf(rows) == {rows.ids[k] : k \in 1..Len(rows.ids)}

\* a message of one of the types was broadcast for the row id
Notified(types, id) ==
    \E k \in 1..Len(rq_sent) : rq_sent[k].type \in types /\ rq_sent[k].id = id

\* every row the request created, changed or deleted has its message
ChangesNotified ==
    /\ \A id \in IdsOf(rq_db) \ IdsOf(rq_before) : Notified({"item:added", "item:updated"}, id)
    /\ \A id \in IdsOf(rq_db) \cap IdsOf(rq_before) :
          MengeOf(rq_db, id) # MengeOf(rq_before, id)
              => Notified({"item:added", "item:updated"}, id)
    /\ \A id \in IdsOf(rq_before) \ IdsOf(rq_db) : Notified({"item:deleted"}, id)

\* no item:updated for a row the request deleted
NoUpdateOfDeleted ==
    \A k \in 1..Len(rq_sent) : rq_sent[k].type = "item:updated" => rq_sent[k].id \in IdsOf(rq_db)

\* C28: for every line a Create, Update or Delete of a plan entry creates,
\* changes or deletes, a change notification (added, updated or deleted) is
\* eventually broadcast, and no updated-notification is broadcast for a
\* line the same request deleted: a request whose line steps do not fail
\* comes to its end with these messages sent.
C28_ChangesEventuallyNotified ==
    (rq_pc = "lines") ~>
        (rq_pc = "failed" \/ (rq_pc = "done" /\ ChangesNotified /\ NoUpdateOfDeleted))

====
